---- MODULE Spec2Model ----
(***************************************************************************)
(* Verification model of instapaper-cli (vburojevic/instapaper-cli).       *)
(*                                                                         *)
(* Part I   : the retrying transport, Client.postForm                      *)
(*            (internal/instapaper/client.go).                             *)
(* Part II  : the sync cursor and the paginator, listBookmarks and the     *)
(*            cursor helpers (cmd/ip/main.go).                             *)
(* Part III : the list and export commands, runList and runExport.         *)
(* Part IV  : the batch loops of the mutation commands.                    *)
(* Part V   : pure functions: exit codes, filters, response parsing.       *)
(* Part VI  : command invocations: saves, delete, dry-run, signing, login, *)
(*            Int64 decoding, a walk against a finite server.              *)
(*                                                                         *)
(* Durations are in milliseconds.  Error values are records                *)
(* [kind, code]; kind "nil" is Go's nil error.                             *)
(***************************************************************************)
EXTENDS Integers, Sequences, FiniteSets, TLC

VARIABLES
    \* ---- Part I: one Client and one postForm call on it
    optRetry,      \* opts.RetryCount   (--retry)
    optBackoff,    \* opts.RetryBackoff (--retry-backoff), ms
    RetryCount,    \* Client.RetryCount
    RetryBackoff,  \* Client.RetryBackoff, ms
    pc,            \* position inside postForm
    i,             \* postForm's loop index
    last,          \* lastStatus, lastBody, lastErr
    outcomes,      \* log: what each postFormOnce call returned
    sleeps,        \* log: the duration of each time.Sleep begun
    ctxDone,       \* ctx.Err() != nil
    atCancel,      \* log: the call's progress when ctx was cancelled
    ret,           \* what postForm returned
    \* ---- Part II: listBookmarks runs, one record per run
    wk,            \* run -> its parameters, locals, files and logs
    \* ---- Part III: one list or export command
    cmd,           \* its flags, position, exit code and logs
    \* ---- Part IV: one batch loop
    batch,         \* its items, position, exit code and logs
    \* ---- Part V: one application of a pure function
    fn,            \* its name, arguments and result
    \* ---- Part VI: the invocations of a command
    job            \* its flags, the files, the requests sent, the position

tvars == <<optRetry, optBackoff, RetryCount, RetryBackoff, pc, i, last,
           outcomes, sleeps, ctxDone, atCancel, ret>>

\* the variables of Parts III to VI
xvars == <<cmd, batch, fn, job>>

vars == <<tvars, wk, xvars>>

\* no command, no batch loop and no function application is modelled
NoCmd == [pc |-> "none"]

NoBatch == [pc |-> "none"]

NoCall == [name |-> "none"]

NoJob == [name |-> "none"]

XIdle == cmd = NoCmd /\ batch = NoBatch /\ fn = NoCall /\ job = NoJob

-----------------------------------------------------------------------------
(* Bounds of the model *)

\* largest --retry value tried
MaxRetry == 2

\* largest --max-pages value tried
MaxPagesFlag == 2

\* the server delivers at most this many non-empty pages to one walk
MaxNonEmptyPages == 3

(* Program constants *)

\* client.go:188 and client.go:221, 500 * time.Millisecond
DefaultBackoff == 500

\* client.go:283, the rate-limit application error code
RateLimitCode == 1040

-----------------------------------------------------------------------------
(* Errors, bodies and outcomes *)

NilErr == [kind |-> "nil", code |-> 0]

Err(kind) == [kind |-> kind, code |-> 0]

\* *APIError{Code: c}
APIError(c) == [kind |-> "api", code |-> c]

\* fmt.Errorf("HTTP %d: %s", status, ...)
HTTPError(status) == [kind |-> "http", code |-> status]

\* A response body, as far as parseAPIError reads it: its first byte class
\* (shape) and, for a JSON array, the type and error_code of element 0.
Body(shape, type, code) == [shape |-> shape, type |-> type, code |-> code]

NoBody == Body("empty", "", 0)

Bodies ==
    { NoBody,
      Body("object", "", 0),
      Body("text", "", 0),
      Body("array", "bookmark", 0),
      Body("array", "error", RateLimitCode),
      Body("array", "error", 1240),
      Body("array", "error", 1500) }

\* what postFormOnce returns: (status, body, err)
Outcome(status, body, err) == [status |-> status, body |-> body, err |-> err]

NoOutcome == Outcome(0, NoBody, NilErr)

\* the responses and failures one attempt may meet
Outcomes ==
    { Outcome(200, Body("object", "", 0), NilErr),
      Outcome(200, Body("array", "error", RateLimitCode), NilErr),
      Outcome(400, Body("array", "error", 1240), NilErr),
      Outcome(400, Body("array", "error", 1500), NilErr),
      Outcome(429, Body("text", "", 0), NilErr),
      Outcome(500, Body("text", "", 0), NilErr),
      Outcome(0, NoBody, Err("signer")),
      Outcome(0, NoBody, Err("net")) }

\* the attempt fails because the request's context is done
CtxOutcome == Outcome(0, NoBody, Err("ctx"))

\* --retry-backoff values tried, ms
BackoffFlags == {0, 1, 250}

-----------------------------------------------------------------------------
(* Pure functions of client.go *)

parseAPIError(body) ==
    IF body.shape = "array" /\ body.type = "error"
    THEN APIError(body.code)
    ELSE NilErr

shouldRetry(status, body) ==
    IF status = 429 \/ status >= 500
    THEN TRUE
    ELSE IF parseAPIError(body) # NilErr
         THEN parseAPIError(body).code = RateLimitCode
         ELSE FALSE

ensureOK(status, body) ==
    IF parseAPIError(body) # NilErr
    THEN parseAPIError(body)
    ELSE IF status >= 200 /\ status <= 299
         THEN NilErr
         ELSE HTTPError(status)

\* SetRetry's count after clamping
SetRetryCount(count) == IF count < 0 THEN 0 ELSE count

\* SetRetry's backoff after defaulting
SetRetryBackoff(backoff) == IF backoff <= 0 THEN DefaultBackoff ELSE backoff

\* postForm: attempts := c.RetryCount + 1, at least 1
attempts == IF RetryCount + 1 < 1 THEN 1 ELSE RetryCount + 1

\* postForm: backoff := c.RetryBackoff, defaulted
backoff == IF RetryBackoff <= 0 THEN DefaultBackoff ELSE RetryBackoff

\* mutant of sleepDuration: the backoff does not grow
sleepDuration_flat(b, n) == b

\* postForm: backoff * time.Duration(1<<i)
sleepDuration(b, n) == b * (2 ^ n)

\* postForm: the attempt's result ends the call successfully
returnsNow(o) == o.err = NilErr /\ ~shouldRetry(o.status, o.body)

\* mutant of sleepsAgain: a sleep follows the final attempt too
sleepsAgain_always(n, max) == n < max

\* postForm: i < attempts-1, another attempt follows after a sleep
sleepsAgain(n, max) == n < max - 1

\* a Client method after postForm: err, else ensureOK(status, body)
callError(r) == IF r.err # NilErr THEN r.err ELSE ensureOK(r.status, r.body)

-----------------------------------------------------------------------------
(* Part I: the state machine of one postForm call *)

\* requireClient: NewClient, then SetRetry only when --retry > 0
TInit ==
    /\ optRetry \in -1 .. MaxRetry
    /\ optBackoff \in BackoffFlags
    /\ RetryCount = IF optRetry > 0 THEN SetRetryCount(optRetry) ELSE 0
    /\ RetryBackoff = IF optRetry > 0 THEN SetRetryBackoff(optBackoff) ELSE 0
    /\ pc = "attempt"
    /\ i = 0
    /\ last = NoOutcome
    /\ outcomes = <<>>
    /\ sleeps = <<>>
    /\ ctxDone = FALSE
    /\ atCancel = [attempts |-> 0, sleeps |-> 0, i |-> 0]
    /\ ret = NoOutcome
    /\ wk = <<>>
    /\ XIdle

\* postForm calls postFormOnce: the request is built, signed and sent
PostFormOnceCall ==
    /\ pc = "attempt"
    /\ pc' = "inflight"
    /\ UNCHANGED <<optRetry, optBackoff, RetryCount, RetryBackoff, i, last,
                   outcomes, sleeps, ctxDone, atCancel, ret, wk, xvars>>

\* postFormOnce returns o and postForm decides: return, or sleep and retry
PostFormOnceReturn(o) ==
    /\ pc = "inflight"
    /\ last' = o
    /\ outcomes' = Append(outcomes, o)
    /\ IF returnsNow(o)
       THEN /\ ret' = Outcome(o.status, o.body, NilErr)
            /\ pc' = "done"
            /\ UNCHANGED sleeps
       ELSE IF ctxDone
       THEN /\ ret' = Outcome(o.status, o.body, Err("ctx"))
            /\ pc' = "done"
            /\ UNCHANGED sleeps
       ELSE IF sleepsAgain(i, attempts)
       THEN /\ sleeps' = Append(sleeps, sleepDuration(backoff, i))
            /\ pc' = "sleeping"
            /\ UNCHANGED ret
       ELSE /\ ret' = o
            /\ pc' = "done"
            /\ UNCHANGED sleeps
    /\ UNCHANGED <<optRetry, optBackoff, RetryCount, RetryBackoff, i,
                   ctxDone, atCancel, wk, xvars>>

\* an attempt under a live context meets any outcome; under a done context
\* the HTTP client fails it with the context's error
PostFormOnceDone ==
    \E o \in (IF ctxDone THEN {CtxOutcome} ELSE Outcomes) : PostFormOnceReturn(o)

\* time.Sleep returns; continue with i++
SleepDone ==
    /\ pc = "sleeping"
    /\ i' = i + 1
    /\ IF i + 1 < attempts
       THEN pc' = "attempt" /\ UNCHANGED ret
       ELSE pc' = "done" /\ ret' = last
    /\ UNCHANGED <<optRetry, optBackoff, RetryCount, RetryBackoff, last,
                   outcomes, sleeps, ctxDone, atCancel, wk, xvars>>

\* the caller cancels ctx while the call is suspended: in a network round
\* trip or in a backoff sleep
CtxCancel ==
    /\ pc \in {"inflight", "sleeping"}
    /\ ~ctxDone
    /\ ctxDone' = TRUE
    /\ atCancel' = [attempts |-> Len(outcomes) + (IF pc = "inflight" THEN 1 ELSE 0),
                    sleeps |-> Len(sleeps), i |-> i]
    /\ UNCHANGED <<optRetry, optBackoff, RetryCount, RetryBackoff, pc, i,
                   last, outcomes, sleeps, ret, wk, xvars>>

\* The CLI passes context.Background() (main.go:195): never cancelled.
TNext == PostFormOnceCall \/ PostFormOnceDone \/ SleepDone

SpecTransport == TInit /\ [][TNext]_vars

\* postForm under a caller that may cancel its context
TNextCancel == PostFormOnceCall \/ PostFormOnceDone \/ SleepDone \/ CtxCancel

SpecCancel == TInit /\ [][TNextCancel]_vars

-----------------------------------------------------------------------------
(* Part II: strings.  A Go string is a TLA+ string; Len, Head, Tail, SubSeq *)
(* and \o work on it character by character.                               *)

\* the characters that occur, in byte order (the order sort.Strings uses)
Chars == " !%&+,-./0123456789:=?ABCDEFGHIJKLMNOPQRSTUVWXYZ_abcdefghijklmnopqrstuvwxyz~"

Digits == "0123456789"

RECURSIVE IndexFrom(_, _, _)
\* the first position >= k of the one-character c in s, 0 if none
IndexFrom(s, c, k) ==
    IF k > Len(s) THEN 0
    ELSE IF SubSeq(s, k, k) = c THEN k
    ELSE IndexFrom(s, c, k + 1)

\* strings.Index for a one-character c: its first position in s, 0 if none
IndexOf(s, c) == IndexFrom(s, c, 1)

\* the rank of every character in byte order
CharRank ==
    [c \in {SubSeq(Chars, k, k) : k \in 1 .. Len(Chars)} |-> IndexOf(Chars, c)]

RECURSIVE StrLess(_, _)
\* a < b as Go compares strings: byte-wise, a proper prefix first
StrLess(a, b) ==
    IF b = "" THEN FALSE
    ELSE IF a = "" THEN TRUE
    ELSE IF Head(a) = Head(b) THEN StrLess(Tail(a), Tail(b))
    ELSE CharRank[Head(a)] < CharRank[Head(b)]

RECURSIVE Split(_, _)
\* strings.Split(s, sep) for a one-character sep
Split(s, sep) ==
    LET at == IndexOf(s, sep)
    IN  IF at = 0 THEN <<s>>
        ELSE <<SubSeq(s, 1, at - 1)>> \o Split(SubSeq(s, at + 1, Len(s)), sep)

RECURSIVE TrimLeft(_)
TrimLeft(s) == IF s # "" /\ Head(s) = " " THEN TrimLeft(Tail(s)) ELSE s

RECURSIVE TrimRight(_)
TrimRight(s) ==
    IF s # "" /\ SubSeq(s, Len(s), Len(s)) = " "
    THEN TrimRight(SubSeq(s, 1, Len(s) - 1))
    ELSE s

\* strings.TrimSpace
TrimSpace(s) == TrimRight(TrimLeft(s))

RECURSIVE Join(_, _)
\* strings.Join
Join(parts, sep) ==
    IF parts = <<>> THEN ""
    ELSE IF Len(parts) = 1 THEN parts[1]
    ELSE parts[1] \o sep \o Join(Tail(parts), sep)

RECURSIVE SortStrings(_)
\* sort.Strings of the strings of a set
SortStrings(S) ==
    IF S = {} THEN <<>>
    ELSE LET least == CHOOSE x \in S : \A y \in S \ {x} : StrLess(x, y)
         IN  <<least>> \o SortStrings(S \ {least})

RECURSIVE AllDigits(_)
AllDigits(s) ==
    s = "" \/ (IndexOf(Digits, Head(s)) # 0 /\ AllDigits(Tail(s)))

RECURSIVE DigitsValue(_)
\* the number a string of digits denotes
DigitsValue(s) ==
    IF s = "" THEN 0
    ELSE 10 * DigitsValue(SubSeq(s, 1, Len(s) - 1))
         + (IndexOf(Digits, SubSeq(s, Len(s), Len(s))) - 1)

RECURSIVE FormatNat(_)
FormatNat(n) ==
    IF n < 10 THEN SubSeq(Digits, n + 1, n + 1)
    ELSE FormatNat(n \div 10) \o SubSeq(Digits, (n % 10) + 1, (n % 10) + 1)

\* strconv.FormatInt(n, 10)
FormatInt(n) == IF n < 0 THEN "-" \o FormatNat(-n) ELSE FormatNat(n)

\* strconv.ParseInt(s, 10, 64): an optional sign and digits
ParseInt(s) ==
    LET neg == s # "" /\ Head(s) = "-"
        body == IF s # "" /\ (Head(s) = "-" \/ Head(s) = "+") THEN Tail(s) ELSE s
    IN  IF body = "" \/ ~AllDigits(body)
        THEN [ok |-> FALSE, val |-> 0]
        ELSE [ok |-> TRUE,
              val |-> IF neg THEN -DigitsValue(body) ELSE DigitsValue(body)]

\* A float64 is a number of hundredths.
\* strconv.ParseFloat(s, 64) on decimal notation with at most two
\* fractional digits: digits, optionally "." and digits
ParseFloat(s) ==
    LET dot  == IndexOf(s, ".")
        int  == IF dot = 0 THEN s ELSE SubSeq(s, 1, dot - 1)
        frac == IF dot = 0 THEN "" ELSE SubSeq(s, dot + 1, Len(s))
    IN  IF (int = "" /\ frac = "") \/ ~AllDigits(int) \/ ~AllDigits(frac)
           \/ Len(frac) > 2
        THEN [ok |-> FALSE, val |-> 0]
        ELSE [ok |-> TRUE,
              val |-> 100 * DigitsValue(int)
                      + (IF Len(frac) = 1 THEN 10 * DigitsValue(frac)
                         ELSE DigitsValue(frac))]

\* strconv.FormatFloat(f, 'f', -1, 64): the shortest decimal notation
FormatFloat(f) ==
    IF f % 100 = 0 THEN FormatNat(f \div 100)
    ELSE IF f % 10 = 0
    THEN FormatNat(f \div 100) \o "." \o FormatNat((f % 100) \div 10)
    ELSE FormatNat(f \div 100) \o "." \o FormatNat((f % 100) \div 10)
         \o FormatNat(f % 10)

-----------------------------------------------------------------------------
(* Part II: the sync cursor (cmd/ip/main.go) *)

\* cursorEntry
cursorEntry(hash, progress, ts) ==
    [Hash |-> hash, Progress |-> progress, ProgressTimestamp |-> ts]

\* map[string]cursorEntry{}
EmptyHave == [id \in {} |-> cursorEntry("", 0, 0)]

\* cur.Have[id] = entry
MapPut(have, id, entry) ==
    [x \in DOMAIN have \cup {id} |-> IF x = id THEN entry ELSE have[x]]

\* delete(cur.Have, id)
MapDelete(have, id) == [x \in DOMAIN have \ {id} |-> have[x]]

\* a *listCursor: nil, or a cursor with its Have map
NilCursor == [isNil |-> TRUE, Have |-> EmptyHave]

NewCursor(have) == [isNil |-> FALSE, Have |-> have]

\* instapaper.Bookmark, the fields the cursor reads
Bookmark(id, hash, progress, ts) ==
    [BookmarkID |-> id, Hash |-> hash, Progress |-> progress,
     ProgressTimestamp |-> ts,
     Time |-> 0, Starred |-> FALSE, Tags |-> <<>>, Title |-> ""]

RECURSIVE upsertAll(_, _)
\* updateCursor's first loop
upsertAll(have, bookmarks) ==
    IF bookmarks = <<>> THEN have
    ELSE upsertAll(MapPut(have, FormatInt(Head(bookmarks).BookmarkID),
                          cursorEntry(Head(bookmarks).Hash,
                                      Head(bookmarks).Progress,
                                      Head(bookmarks).ProgressTimestamp)),
                   Tail(bookmarks))

RECURSIVE deleteAll(_, _)
\* updateCursor's second loop
deleteAll(have, deleteIDs) ==
    IF deleteIDs = <<>> THEN have
    ELSE deleteAll(MapDelete(have, FormatInt(Head(deleteIDs))), Tail(deleteIDs))

\* mutant of updateCursor: the delete list is applied before the upserts
updateCursor_deleteFirst(cur, bookmarks, deleteIDs) ==
    IF cur.isNil THEN cur
    ELSE NewCursor(upsertAll(deleteAll(cur.Have, deleteIDs), bookmarks))

updateCursor(cur, bookmarks, deleteIDs) ==
    IF cur.isNil THEN cur
    ELSE NewCursor(deleteAll(upsertAll(cur.Have, bookmarks), deleteIDs))

formatHaveEntry(id, entry) ==
    IF entry.Hash = "" THEN id
    ELSE IF entry.ProgressTimestamp > 0
    THEN Join(<<id, entry.Hash, FormatFloat(entry.Progress),
                FormatInt(entry.ProgressTimestamp)>>, ":")
    ELSE id \o ":" \o entry.Hash

\* mutant of haveStringFromCursor: the cursor is not sent
haveStringFromCursor_none(cur) == ""

haveStringFromCursor(cur) ==
    IF cur.isNil \/ DOMAIN cur.Have = {} THEN ""
    ELSE LET ids == SortStrings(DOMAIN cur.Have)
         IN  Join([n \in 1 .. Len(ids) |-> formatHaveEntry(ids[n], cur.Have[ids[n]])],
                  ",")

\* mergeHaveString: the entry one part of the have string denotes
haveEntryOf(fields) ==
    cursorEntry(IF Len(fields) > 1 THEN fields[2] ELSE "",
                IF Len(fields) > 3 /\ ParseFloat(fields[3]).ok
                THEN ParseFloat(fields[3]).val ELSE 0,
                IF Len(fields) > 3 /\ ParseInt(fields[4]).ok
                THEN ParseInt(fields[4]).val ELSE 0)

RECURSIVE mergeParts(_, _)
\* mergeHaveString's loop over the parts of the have string
mergeParts(have, parts) ==
    IF parts = <<>> THEN have
    ELSE LET part   == TrimSpace(Head(parts))
             fields == Split(part, ":")
             id     == TrimSpace(fields[1])
         IN  IF part = "" \/ id = ""
             THEN mergeParts(have, Tail(parts))
             ELSE mergeParts(MapPut(have, id, haveEntryOf(fields)), Tail(parts))

mergeHaveString(cur, have) ==
    IF cur.isNil THEN cur
    ELSE NewCursor(mergeParts(cur.Have, Split(have, ",")))

-----------------------------------------------------------------------------
(* Part II: files *)

\* the contents of a path: none, an unreadable file, a zero-length file,
\* bytes that are no JSON, the JSON {"have": null}, or a JSON cursor whose
\* entries hold the fields json omitempty keeps
File(kind, have) == [kind |-> kind, have |-> have]

Absent == File("absent", EmptyHave)

\* json.Marshal of a cursorEntry: zero-valued fields are omitted (omitempty)
jsonOfEntry(e) ==
    [f \in (IF e.Hash # "" THEN {"hash"} ELSE {})
           \cup (IF e.Progress # 0 THEN {"progress"} ELSE {})
           \cup (IF e.ProgressTimestamp # 0 THEN {"progress_timestamp"} ELSE {})
     |-> CASE f = "hash" -> e.Hash
           [] f = "progress" -> e.Progress
           [] OTHER -> e.ProgressTimestamp]

\* json.Unmarshal into a cursorEntry: absent fields stay zero
entryOfJson(j) ==
    cursorEntry(IF "hash" \in DOMAIN j THEN j["hash"] ELSE "",
                IF "progress" \in DOMAIN j THEN j["progress"] ELSE 0,
                IF "progress_timestamp" \in DOMAIN j
                THEN j["progress_timestamp"] ELSE 0)

\* saveCursor: json.MarshalIndent(cur)
marshalCursor(cur) ==
    File("json", [id \in DOMAIN cur.Have |-> jsonOfEntry(cur.Have[id])])

\* loadCursor: the cursor and the error it returns for a path and its file
loadCursor(path, file) ==
    IF path = "" \/ file.kind \in {"absent", "empty", "null"}
    THEN [cur |-> NewCursor(EmptyHave), err |-> NilErr]
    ELSE IF file.kind = "denied"
    THEN [cur |-> NilCursor, err |-> Err("read")]
    ELSE IF file.kind = "garbage"
    THEN [cur |-> NilCursor, err |-> Err("parse")]
    ELSE [cur |-> NewCursor([id \in DOMAIN file.have |-> entryOfJson(file.have[id])]),
          err |-> NilErr]

-----------------------------------------------------------------------------
(* Part II: the inputs of a listBookmarks run *)

\* listBookmarks: limit = 500 for an open-ended walk
PageLimit == 500

\* listBookmarks: maxPages = 200 when params.MaxPages <= 0
DefaultMaxPages == 200

CursorFile == "cursor.json"

\* the cursor files a run may find
InitialFiles ==
    { Absent,
      File("denied", EmptyHave),
      File("garbage", EmptyHave),
      File("null", EmptyHave),
      marshalCursor(NewCursor(("5" :> cursorEntry("old", 0, 0))
                              @@ ("7" :> cursorEntry("", 0, 0)))),
      \* {"have": {"": {}, "9": {"hash": "old"}}}: valid JSON, an empty key
      marshalCursor(NewCursor(("" :> cursorEntry("", 0, 0))
                              @@ ("9" :> cursorEntry("old", 0, 0)))) }

\* the --have values tried
HaveFlags ==
    { "",
      "5:abc,6:def:0.5:1700000000",
      "123:0.5:1700000000",
      " 8:ghi , 7" }

\* the --limit values tried (runList accepts 0..500)
LimitFlags == {0, 25}

\* a list response: the error of ListBookmarks, or its bookmarks and
\* delete ids
Page(bookmarks, deleteIDs) ==
    [err |-> NilErr, Bookmarks |-> bookmarks, DeleteIDs |-> deleteIDs]

FailedPage == [err |-> Err("net"), Bookmarks |-> <<>>, DeleteIDs |-> <<>>]

\* the non-empty pages the server may deliver
NonEmptyPages ==
    { Page(<<Bookmark(5, "abc", 0, 0), Bookmark(10, "pqr", 0, 0)>>, <<>>),
      Page(<<Bookmark(6, "xyz", 50, 1700000000)>>, <<5>>),
      Page(<<Bookmark(5, "abc", 25, 1700000001), Bookmark(6, "def", 0, 0)>>, <<6>>) }

\* the pages without bookmarks
EmptyPages == { Page(<<>>, <<>>), Page(<<>>, <<5>>) }

Responses == NonEmptyPages \cup EmptyPages \cup {FailedPage}

\* listBookmarksParams
Params(limit, have, path, maxPages, handler, discard) ==
    [Limit |-> limit, Have |-> have, CursorPath |-> path,
     MaxPages |-> maxPages, PageHandler |-> handler, DiscardOutput |-> discard]

\* a run before listBookmarks is entered
Run(params, file) ==
    [params |-> params,
     file |-> file, tmp |-> Absent,
     cursor |-> NilCursor, have |-> "", limit |-> 0, pages |-> 0, maxPages |-> 0,
     Bookmarks |-> <<>>, DeleteIDs |-> <<>>,
     pc |-> "start", err |-> NilErr,
     \* logs
     file0 |-> file, cursor0 |-> NilCursor, sent |-> <<>>, got |-> <<>>,
     writes |-> 0]

-----------------------------------------------------------------------------
(* Part II: listBookmarks, as functions from a run to the run after a step *)

Return(w, err) == [w EXCEPT !.pc = "done", !.err = err]

\* mutant of nextRequest: the cap is checked one page late
nextRequest_late(w) ==
    IF w.params.Limit = 0 /\ w.pages + 1 > w.maxPages + 1
    THEN Return([w EXCEPT !.pages = w.pages + 1], Err("maxpages"))
    ELSE [w EXCEPT !.pages = w.pages + 1,
                   !.pc = "request",
                   !.sent = Append(w.sent, w.have)]

\* the head of the loop: pages++, the max-pages check, the next request
nextRequest(w) ==
    IF w.params.Limit = 0 /\ w.pages + 1 > w.maxPages
    THEN Return([w EXCEPT !.pages = w.pages + 1], Err("maxpages"))
    ELSE [w EXCEPT !.pages = w.pages + 1,
                   !.pc = "request",
                   !.sent = Append(w.sent, w.have)]

\* listBookmarks up to its first request
begin(w) ==
    LET ld   == IF w.params.CursorPath # ""
                THEN loadCursor(w.params.CursorPath, w.file)
                ELSE [cur |-> NilCursor, err |-> NilErr]
        have == TrimSpace(w.params.Have)
        cur  == IF have # ""
                THEN mergeHaveString(IF ld.cur.isNil THEN NewCursor(EmptyHave)
                                     ELSE ld.cur, have)
                ELSE ld.cur
        cur2 == IF w.params.Limit = 0 /\ cur.isNil THEN NewCursor(EmptyHave)
                ELSE cur
    IN  IF ld.err # NilErr THEN Return(w, ld.err)
        ELSE nextRequest(
               [w EXCEPT !.cursor = cur2,
                         !.cursor0 = cur2,
                         !.have = IF have # "" \/ ~ld.cur.isNil
                                  THEN haveStringFromCursor(cur) ELSE have,
                         !.limit = IF w.params.Limit = 0 THEN PageLimit
                                   ELSE w.params.Limit,
                         !.maxPages = IF w.params.MaxPages <= 0
                                      THEN DefaultMaxPages ELSE w.params.MaxPages])

\* after the loop: saveCursor is entered when a cursor is active
endWalk(w) ==
    IF w.cursor.isNil \/ w.params.CursorPath = ""
    THEN Return(w, NilErr)
    ELSE [w EXCEPT !.pc = "save_write"]

\* resp.Bookmarks = append(resp.Bookmarks, r.Bookmarks...) unless discarded
keepBookmarks(w, r) ==
    IF ~w.params.DiscardOutput THEN w.Bookmarks \o r.Bookmarks ELSE w.Bookmarks

\* mutant of foldPage: the cursor is persisted after every page
foldPage_persist(w, r) ==
    IF ~w.cursor.isNil
    THEN [w EXCEPT !.cursor = updateCursor(w.cursor, r.Bookmarks, r.DeleteIDs),
                   !.have = haveStringFromCursor(
                                updateCursor(w.cursor, r.Bookmarks, r.DeleteIDs)),
                   !.file = IF w.params.CursorPath = "" THEN w.file
                            ELSE marshalCursor(
                                     updateCursor(w.cursor, r.Bookmarks, r.DeleteIDs)),
                   !.writes = IF w.params.CursorPath = "" THEN w.writes
                              ELSE w.writes + 1]
    ELSE w

\* mutant of foldPage: the have string is not recomputed after a page
foldPage_staleHave(w, r) ==
    IF ~w.cursor.isNil
    THEN [w EXCEPT !.cursor = updateCursor(w.cursor, r.Bookmarks, r.DeleteIDs)]
    ELSE w

\* mutant of foldPage: a discarded page is not folded into the cursor
foldPage_keptOnly(w, r) ==
    IF ~w.cursor.isNil /\ ~w.params.DiscardOutput
    THEN [w EXCEPT !.cursor = updateCursor(w.cursor, r.Bookmarks, r.DeleteIDs),
                   !.have = haveStringFromCursor(
                                updateCursor(w.cursor, r.Bookmarks, r.DeleteIDs))]
    ELSE w

\* the fold of page r: updateCursor and the new have string
foldPage(w, r) ==
    IF ~w.cursor.isNil
    THEN [w EXCEPT !.cursor = updateCursor(w.cursor, r.Bookmarks, r.DeleteIDs),
                   !.have = haveStringFromCursor(
                                updateCursor(w.cursor, r.Bookmarks, r.DeleteIDs))]
    ELSE w

\* the loop body once ListBookmarks has returned r; handlerOK is what the
\* page handler, if any, answers
pageReturn(w, r, handlerOK) ==
    IF r.err # NilErr THEN Return(w, r.err)
    ELSE LET w1 == [w EXCEPT !.Bookmarks = keepBookmarks(w, r),
                             !.DeleteIDs = w.DeleteIDs \o r.DeleteIDs,
                             !.got = Append(w.got, r)]
         IN  IF w.params.PageHandler /\ ~handlerOK
             THEN Return(w1, Err("handler"))
             ELSE IF w.params.Limit > 0 \/ Len(r.Bookmarks) = 0
                  THEN endWalk(foldPage(w1, r))
                  ELSE nextRequest(foldPage(w1, r))

\* saveCursor: MkdirAll, MarshalIndent, WriteFile(tmp)
saveWrite(w, res) ==
    IF res = "mkdir" THEN Return(w, Err("mkdir"))
    ELSE IF res = "write"
    THEN Return([w EXCEPT !.tmp = File("garbage", EmptyHave)], Err("write"))
    ELSE [w EXCEPT !.tmp = marshalCursor(w.cursor), !.pc = "save_rename"]

\* os.Rename(tmp, path): the file takes the contents of tmp
renamed(w) == [w EXCEPT !.file = w.tmp, !.tmp = Absent, !.writes = w.writes + 1]

\* saveCursor: the first os.Rename(tmp, path)
saveRename(w, ok) ==
    IF ok THEN Return(renamed(w), NilErr)
    ELSE [w EXCEPT !.pc = "save_remove"]

\* saveCursor: _ = os.Remove(path)
saveRemove(w, ok) ==
    [w EXCEPT !.file = IF ok THEN Absent ELSE w.file, !.pc = "save_rename2"]

\* saveCursor: the second os.Rename, and os.Remove(tmp) when it fails too
saveRename2(w, ok, cleaned) ==
    IF ok THEN Return(renamed(w), NilErr)
    ELSE Return([w EXCEPT !.tmp = IF cleaned THEN Absent ELSE w.tmp],
                Err("rename"))

-----------------------------------------------------------------------------
(* Part II: the state machine.  Every run of wk takes the step, with the   *)
(* same inputs; SpecWalk has one run.                                      *)

Runs == DOMAIN wk

At(p) == \E x \in Runs : wk[x].pc = p

\* wk after every run at position p has taken the step f
After(p, f(_)) == [x \in Runs |-> IF wk[x].pc = p THEN f(wk[x]) ELSE wk[x]]

\* the pages delivered so far that held bookmarks
NonEmptyGot(w) == Cardinality({n \in 1 .. Len(w.got) : w.got[n].Bookmarks # <<>>})

\* listBookmarks is entered and runs up to its first request
Begin ==
    /\ At("start")
    /\ LET f(w) == begin(w) IN wk' = After("start", f)
    /\ UNCHANGED <<tvars, xvars>>

\* client.ListBookmarks returns r and the loop body runs
PageReturn ==
    /\ At("request")
    /\ \E r \in Responses, handlerOK \in BOOLEAN :
        /\ r \in NonEmptyPages
           => \A x \in Runs : NonEmptyGot(wk[x]) < MaxNonEmptyPages
        /\ LET f(w) == pageReturn(w, r, handlerOK) IN wk' = After("request", f)
    /\ UNCHANGED <<tvars, xvars>>

SaveWrite ==
    /\ At("save_write")
    /\ \E res \in {"ok", "mkdir", "write"} :
        LET f(w) == saveWrite(w, res) IN wk' = After("save_write", f)
    /\ UNCHANGED <<tvars, xvars>>

SaveRename ==
    /\ At("save_rename")
    /\ \E ok \in BOOLEAN :
        LET f(w) == saveRename(w, ok) IN wk' = After("save_rename", f)
    /\ UNCHANGED <<tvars, xvars>>

SaveRemove ==
    /\ At("save_remove")
    /\ \E ok \in BOOLEAN :
        LET f(w) == saveRemove(w, ok) IN wk' = After("save_remove", f)
    /\ UNCHANGED <<tvars, xvars>>

SaveRename2 ==
    /\ At("save_rename2")
    /\ \E ok \in BOOLEAN, cleaned \in BOOLEAN :
        LET f(w) == saveRename2(w, ok, cleaned) IN wk' = After("save_rename2", f)
    /\ UNCHANGED <<tvars, xvars>>

\* the transport is not part of these specifications
TIdle ==
    /\ optRetry = 0 /\ optBackoff = 0 /\ RetryCount = 0 /\ RetryBackoff = 0
    /\ pc = "done" /\ i = 0 /\ last = NoOutcome /\ outcomes = <<>>
    /\ sleeps = <<>> /\ ctxDone = FALSE
    /\ atCancel = [attempts |-> 0, sleeps |-> 0, i |-> 0]
    /\ ret = NoOutcome

\* runList and runExport: the parameters they hand to listBookmarks
ParamSets ==
    { Params(limit, have, path, maxPages, hd[1], hd[2]) :
        limit \in LimitFlags, have \in HaveFlags, path \in {"", CursorFile},
        maxPages \in 0 .. MaxPagesFlag,
        hd \in {<<FALSE, FALSE>>, <<TRUE, FALSE>>, <<TRUE, TRUE>>} }

WInit ==
    /\ TIdle
    /\ XIdle
    /\ \E params \in ParamSets, file \in InitialFiles :
          wk = <<Run(params, file)>>

WNext == Begin \/ PageReturn \/ SaveWrite \/ SaveRename \/ SaveRemove \/ SaveRename2

SpecWalk == WInit /\ [][WNext]_vars

\* two runs that differ in DiscardOutput only
PInit ==
    /\ TIdle
    /\ XIdle
    /\ \E params \in ParamSets, file \in InitialFiles :
          /\ ~params.DiscardOutput
          /\ wk = <<Run(params, file),
                    Run([params EXCEPT !.DiscardOutput = TRUE], file)>>

SpecPair == PInit /\ [][WNext]_vars

-----------------------------------------------------------------------------
(* Part III: more of package strings *)

Upper == "ABCDEFGHIJKLMNOPQRSTUVWXYZ"

Lower == "abcdefghijklmnopqrstuvwxyz"

RECURSIVE ToLower(_)
\* strings.ToLower
ToLower(s) ==
    IF s = "" THEN ""
    ELSE LET k == IndexOf(Upper, Head(s))
         IN  (IF k = 0 THEN Head(s) ELSE SubSeq(Lower, k, k)) \o ToLower(Tail(s))

\* strings.EqualFold, on letters without other case folding
EqualFold(a, b) == ToLower(a) = ToLower(b)

RECURSIVE IndexStr(_, _, _)
\* the first position >= k at which sub occurs in s, 0 if none
IndexStr(s, sub, k) ==
    IF k + Len(sub) - 1 > Len(s) THEN 0
    ELSE IF SubSeq(s, k, k + Len(sub) - 1) = sub THEN k
    ELSE IndexStr(s, sub, k + 1)

\* strings.Contains
Contains(s, sub) == IndexStr(s, sub, 1) # 0

\* strings.SplitN(s, sep, 2)
SplitN2(s, sep) ==
    LET at == IndexStr(s, sep, 1)
    IN  IF at = 0 THEN <<s>>
        ELSE <<SubSeq(s, 1, at - 1), SubSeq(s, at + Len(sep), Len(s))>>

-----------------------------------------------------------------------------
(* Part III: bounds (--since, --until, --updated-since) *)

\* a *boundSpec: nil, or a field and a value
NilBound == [isNil |-> TRUE, Field |-> "", Value |-> 0]

boundSpec(field, value) == [isNil |-> FALSE, Field |-> field, Value |-> value]

\* time.Parse is modelled on these date strings: the layouts RFC3339 and
\* 2006-01-02, and the Unix time of each
Dates == {<<"1970-01-01T00:02:30Z", 150>>, <<"1970-01-02", 86400>>}

\* parseTimeValue: an integer, or a date in one of the layouts
parseTimeValue(value) ==
    LET v == TrimSpace(value)
    IN  IF v = "" THEN [val |-> 0, err |-> Err("time")]
        ELSE IF ParseInt(v).ok THEN [val |-> ParseInt(v).val, err |-> NilErr]
        ELSE IF \E d \in Dates : d[1] = v
        THEN [val |-> (CHOOSE d \in Dates : d[1] = v)[2], err |-> NilErr]
        ELSE [val |-> 0, err |-> Err("time")]

normalizeBoundField(field) ==
    IF field \in {"id", "bookmark", "bookmarkid", "bookmark_id"} THEN "bookmark_id"
    ELSE IF field \in {"time", "created", "created_at"} THEN "time"
    ELSE IF field \in {"progress", "progress_ts", "progress_timestamp"}
    THEN "progress_timestamp"
    ELSE IF field \in {"updated", "updated_at"} THEN "updated"
    ELSE field

\* parseBoundSpec(spec, defaultField): the bound and the error it returns
parseBoundSpec(spec0, defaultField) ==
    LET spec  == TrimSpace(spec0)
        idx   == IndexOf(spec, ":")
        dflt  == ToLower(TrimSpace(defaultField))
        named == IF idx = 0 THEN ""
                 ELSE ToLower(TrimSpace(SubSeq(spec, 1, idx - 1)))
        field == normalizeBoundField(IF named = "" THEN dflt ELSE named)
        valuePart == IF idx = 0 THEN spec
                     ELSE TrimSpace(SubSeq(spec, idx + 1, Len(spec)))
    IN  IF spec = "" THEN [bound |-> NilBound, err |-> NilErr]
        ELSE IF valuePart = "" THEN [bound |-> NilBound, err |-> Err("bound")]
        ELSE IF field = "bookmark_id"
        THEN IF ParseInt(valuePart).ok
             THEN [bound |-> boundSpec(field, ParseInt(valuePart).val), err |-> NilErr]
             ELSE [bound |-> NilBound, err |-> Err("id")]
        ELSE IF field \in {"time", "progress_timestamp", "updated"}
        THEN IF parseTimeValue(valuePart).err = NilErr
             THEN [bound |-> boundSpec(field, parseTimeValue(valuePart).val),
                   err |-> NilErr]
             ELSE [bound |-> NilBound, err |-> parseTimeValue(valuePart).err]
        ELSE [bound |-> NilBound, err |-> Err("field")]

\* parseUpdatedBound(spec)
parseUpdatedBound(spec) ==
    IF TrimSpace(spec) = "" THEN [bound |-> NilBound, err |-> NilErr]
    ELSE IF parseTimeValue(spec).err = NilErr
    THEN [bound |-> boundSpec("updated", parseTimeValue(spec).val), err |-> NilErr]
    ELSE [bound |-> NilBound, err |-> parseTimeValue(spec).err]

-----------------------------------------------------------------------------
(* Part III: select expressions (--select) *)

selectFilter(field, op, value) == [Field |-> field, Op |-> op, Value |-> value]

normalizeSelectField(field) ==
    IF field \in {"id", "bookmark", "bookmarkid", "bookmark_id"} THEN "bookmark_id"
    ELSE IF field \in {"progress_ts", "progress_timestamp"} THEN "progress_timestamp"
    ELSE IF field \in {"tag", "tags"} THEN "tags"
    ELSE IF field \in {"star", "starred"} THEN "starred"
    ELSE field

\* splitFilter: the operator is the first of !=, ~, = that occurs
splitFilter(expr) ==
    LET op    == IF Contains(expr, "!=") THEN "!="
                 ELSE IF Contains(expr, "~") THEN "~"
                 ELSE IF Contains(expr, "=") THEN "="
                 ELSE ""
        parts == SplitN2(expr, op)
        field == ToLower(TrimSpace(parts[1]))
        value == TrimSpace(parts[2])
    IN  IF op = "" \/ Len(parts) # 2 \/ field = "" \/ value = ""
        THEN [filter |-> selectFilter("", "", ""), err |-> Err("select")]
        ELSE [filter |-> selectFilter(normalizeSelectField(field), op, value),
              err |-> NilErr]

\* parseBool
parseBool(value) ==
    LET v == ToLower(TrimSpace(value))
    IN  IF v \in {"1", "true", "yes", "y", "on"} THEN [val |-> TRUE, ok |-> TRUE]
        ELSE IF v \in {"0", "false", "no", "n", "off"} THEN [val |-> FALSE, ok |-> TRUE]
        ELSE [val |-> FALSE, ok |-> FALSE]

\* validateSelectFilter: TRUE when it returns nil
validateSelectFilter(f) ==
    IF f.Field \in {"bookmark_id", "time", "progress_timestamp"}
    THEN f.Op \in {"=", "!="} /\ ParseInt(f.Value).ok
    ELSE IF f.Field = "progress"
    THEN f.Op \in {"=", "!="} /\ ParseFloat(f.Value).ok
    ELSE IF f.Field = "starred"
    THEN f.Op \in {"=", "!="} /\ parseBool(f.Value).ok
    ELSE IF f.Field \in {"title", "url", "description", "tags"}
    THEN f.Op \in {"=", "!=", "~"}
    ELSE FALSE

RECURSIVE parseSelectParts(_, _)
\* parseSelectExpr's loop: the filters so far, the parts still to parse
parseSelectParts(filters, parts) ==
    IF parts = <<>> THEN [filters |-> filters, err |-> NilErr]
    ELSE LET part == TrimSpace(Head(parts))
         IN  IF part = "" THEN parseSelectParts(filters, Tail(parts))
             ELSE IF splitFilter(part).err # NilErr
             THEN [filters |-> <<>>, err |-> splitFilter(part).err]
             ELSE IF ~validateSelectFilter(splitFilter(part).filter)
             THEN [filters |-> <<>>, err |-> Err("select")]
             ELSE parseSelectParts(Append(filters, splitFilter(part).filter),
                                   Tail(parts))

\* parseSelectExpr(expr): the filters and the error it returns
parseSelectExpr(expr) ==
    IF TrimSpace(expr) = "" THEN [filters |-> <<>>, err |-> NilErr]
    ELSE parseSelectParts(<<>>, Split(TrimSpace(expr), ","))

-----------------------------------------------------------------------------
(* Part III: the client-side filters *)

\* an instapaper.Bookmark with the fields the filters read; Tags holds
\* the tags' names
Item(id, time, ts, starred, tags, title) ==
    [BookmarkID |-> id, Hash |-> "", Progress |-> 0, ProgressTimestamp |-> ts,
     Time |-> time, Starred |-> starred, Tags |-> tags, Title |-> title]

updatedValue(b) ==
    IF b.ProgressTimestamp > 0 THEN b.ProgressTimestamp ELSE b.Time

bookmarkFieldValue(b, field) ==
    IF field = "bookmark_id" THEN b.BookmarkID
    ELSE IF field = "progress_timestamp" THEN b.ProgressTimestamp
    ELSE IF field = "updated" THEN updatedValue(b)
    ELSE b.Time

\* mutant of bookmarkWithinBounds: the until end is exclusive
bookmarkWithinBounds_open(b, since, until) ==
    /\ since.isNil \/ ~(bookmarkFieldValue(b, since.Field) < since.Value)
    /\ until.isNil \/ ~(bookmarkFieldValue(b, until.Field) >= until.Value)

bookmarkWithinBounds(b, since, until) ==
    /\ since.isNil \/ ~(bookmarkFieldValue(b, since.Field) < since.Value)
    /\ until.isNil \/ ~(bookmarkFieldValue(b, until.Field) > until.Value)

RECURSIVE filterBookmarksByBounds(_, _, _)
filterBookmarksByBounds(bookmarks, since, until) ==
    IF bookmarks = <<>> THEN <<>>
    ELSE (IF bookmarkWithinBounds(Head(bookmarks), since, until)
          THEN <<Head(bookmarks)>> ELSE <<>>)
         \o filterBookmarksByBounds(Tail(bookmarks), since, until)

matchInt64(value, f) ==
    /\ ParseInt(f.Value).ok
    /\ IF f.Op = "=" THEN value = ParseInt(f.Value).val
       ELSE IF f.Op = "!=" THEN value # ParseInt(f.Value).val
       ELSE FALSE

matchFloat64(value, f) ==
    /\ ParseFloat(f.Value).ok
    /\ IF f.Op = "=" THEN value = ParseFloat(f.Value).val
       ELSE IF f.Op = "!=" THEN value # ParseFloat(f.Value).val
       ELSE FALSE

matchBool(value, f) ==
    /\ parseBool(f.Value).ok
    /\ IF f.Op = "=" THEN value = parseBool(f.Value).val
       ELSE IF f.Op = "!=" THEN value # parseBool(f.Value).val
       ELSE FALSE

matchString(value, f) ==
    IF f.Op = "=" THEN EqualFold(value, f.Value)
    ELSE IF f.Op = "!=" THEN ~EqualFold(value, f.Value)
    ELSE IF f.Op = "~" THEN Contains(ToLower(value), ToLower(f.Value))
    ELSE FALSE

RECURSIVE matchTags(_, _)
\* matchTags: the loop returns at the first tag that decides
matchTags(tags, f) ==
    IF tags = <<>> THEN f.Op = "!="
    ELSE IF f.Op = "=" /\ EqualFold(Head(tags), f.Value) THEN TRUE
    ELSE IF f.Op = "!=" /\ EqualFold(Head(tags), f.Value) THEN FALSE
    ELSE IF f.Op = "~" /\ Contains(ToLower(Head(tags)), ToLower(f.Value)) THEN TRUE
    ELSE matchTags(Tail(tags), f)

matchSelectFilter(b, f) ==
    IF f.Field = "bookmark_id" THEN matchInt64(b.BookmarkID, f)
    ELSE IF f.Field = "time" THEN matchInt64(b.Time, f)
    ELSE IF f.Field = "progress_timestamp" THEN matchInt64(b.ProgressTimestamp, f)
    ELSE IF f.Field = "progress" THEN matchFloat64(b.Progress, f)
    ELSE IF f.Field = "starred" THEN matchBool(b.Starred, f)
    ELSE IF f.Field = "title" THEN matchString(b.Title, f)
    ELSE IF f.Field = "tags" THEN matchTags(b.Tags, f)
    ELSE FALSE

\* mutant of matchSelectFilters: one matching clause is enough
matchSelectFilters_any(b, filters) ==
    \E n \in 1 .. Len(filters) : matchSelectFilter(b, filters[n])

matchSelectFilters(b, filters) ==
    \A n \in 1 .. Len(filters) : matchSelectFilter(b, filters[n])

RECURSIVE selectLoop(_, _)
\* filterBookmarksBySelectFilters' loop
selectLoop(bookmarks, filters) ==
    IF bookmarks = <<>> THEN <<>>
    ELSE (IF matchSelectFilters(Head(bookmarks), filters)
          THEN <<Head(bookmarks)>> ELSE <<>>)
         \o selectLoop(Tail(bookmarks), filters)

filterBookmarksBySelectFilters(bookmarks, filters) ==
    IF Len(filters) = 0 THEN bookmarks ELSE selectLoop(bookmarks, filters)

\* filterBookmarksBySelect(bookmarks, expr): the bookmarks and the error
filterBookmarksBySelect(bookmarks, expr) ==
    IF parseSelectExpr(expr).err # NilErr
    THEN [bookmarks |-> <<>>, err |-> parseSelectExpr(expr).err]
    ELSE [bookmarks |-> filterBookmarksBySelectFilters(
                            bookmarks, parseSelectExpr(expr).filters),
          err |-> NilErr]

-----------------------------------------------------------------------------
(* Part V: exit codes *)

\* mutant of exitCodeForError: the server-error codes fall through
exitCodeForError_noServer(err) ==
    IF err.kind # "api" THEN 1
    ELSE IF err.code = 1040 THEN 10
    ELSE IF err.code = 1041 THEN 11
    ELSE IF err.code = 1042 THEN 12
    ELSE IF err.code \in {1240, 1241, 1242, 1243, 1244, 1245, 1250, 1251, 1252,
                          1600, 1601, 1220, 1221} THEN 13
    ELSE 1

\* exitCodeForError(err) for a non-nil err
exitCodeForError(err) ==
    IF err.kind # "api" THEN 1
    ELSE IF err.code = 1040 THEN 10
    ELSE IF err.code = 1041 THEN 11
    ELSE IF err.code = 1042 THEN 12
    ELSE IF err.code \in {1240, 1241, 1242, 1243, 1244, 1245, 1250, 1251, 1252,
                          1600, 1601, 1220, 1221} THEN 13
    ELSE IF err.code \in {1500, 1550} THEN 14
    ELSE 1

\* printError(err): the exit code
printError(err) == IF err = NilErr THEN 0 ELSE exitCodeForError(err)

\* printUsageError: the exit code
UsageExit == 2

-----------------------------------------------------------------------------
(* Part III: runList and runExport *)

\* the flags of a list or export command, and the cursor file it finds
Command(name, limit, maxPages, since, until, updatedSince, selectExpr, folder, cursorPath, outputDir, file) ==
    [name |-> name, limit |-> limit, maxPages |-> maxPages, since |-> since,
     until |-> until, updatedSince |-> updatedSince, selectExpr |-> selectExpr,
     folder |-> folder, cursorPath |-> cursorPath, outputDir |-> outputDir,
     file |-> file,
     pc |-> "flags", exit |-> 0,
     sinceBound |-> NilBound, untilBound |-> NilBound,
     \* logs: the usage error reported, the ListFolders requests sent, the
     \* ids of the bookmarks printed
     usage |-> "", folderRequests |-> 0, printed |-> <<>>]

\* return printUsageError(stderr, msg)
UsageError(c, msg) == [c EXCEPT !.pc = "exit", !.exit = UsageExit, !.usage = msg]

\* return printError(stderr, err)
Failure(c, err) == [c EXCEPT !.pc = "exit", !.exit = printError(err)]

\* mutant of maxPagesRejected: 0 is rejected too
maxPagesRejected_zero(maxPages) == maxPages <= 0

\* if maxPages < 0 { return printUsageError(...) }
maxPagesRejected(maxPages) == maxPages < 0

\* the checks on the flags before requireClient: the usage error, "" if none
flagError(c) ==
    IF c.limit < 0 \/ c.limit > PageLimit THEN "limit"
    ELSE IF maxPagesRejected(c.maxPages) THEN "max-pages"
    ELSE IF c.since # "" /\ c.updatedSince # "" THEN "since"
    ELSE ""

\* resolveListFolderID asks the server only for a folder given by title
needsFolderList(folder) ==
    /\ folder # ""
    /\ ToLower(folder) \notin {"unread", "starred", "archive"}
    /\ ~ParseInt(folder).ok

\* the bounds as runList and runExport parse them: since, updated-since
\* (which replaces since), until; the first error ends the parse
parseBounds(c) ==
    LET s == parseBoundSpec(c.since, "bookmark_id")
        u == parseUpdatedBound(c.updatedSince)
        t == parseBoundSpec(c.until, "bookmark_id")
    IN  IF s.err # NilErr THEN [since |-> NilBound, until |-> NilBound, err |-> s.err]
        ELSE IF c.updatedSince # "" /\ u.err # NilErr
        THEN [since |-> NilBound, until |-> NilBound, err |-> u.err]
        ELSE IF t.err # NilErr
        THEN [since |-> NilBound, until |-> NilBound, err |-> t.err]
        ELSE [since |-> IF c.updatedSince # "" THEN u.bound ELSE s.bound,
              until |-> t.bound, err |-> NilErr]

\* the parameters the command hands to listBookmarks
paramsOf(c) ==
    Params(c.limit, "", c.cursorPath, c.maxPages,
           c.name = "export", c.name = "export" /\ c.outputDir # "")

\* from the folder id to the call of listBookmarks: the bounds, and in
\* export the select expression, are parsed; wk is the run then entered
prepare(c) ==
    IF parseBounds(c).err # NilErr THEN UsageError(c, "bound")
    ELSE IF c.name = "export" /\ c.selectExpr # ""
            /\ parseSelectExpr(c.selectExpr).err # NilErr
    THEN UsageError(c, "select")
    ELSE [c EXCEPT !.pc = "walk",
                   !.sinceBound = parseBounds(c).since,
                   !.untilBound = parseBounds(c).until]

\* the ids of a sequence of bookmarks
idsOf(bookmarks) == [n \in 1 .. Len(bookmarks) |-> bookmarks[n].BookmarkID]

\* after listBookmarks returned run w: the error, or the filters and the
\* output
finish(c, w) ==
    IF w.err # NilErr THEN Failure(c, w.err)
    ELSE IF c.name = "export" /\ c.outputDir # "" THEN [c EXCEPT !.pc = "exit"]
    ELSE LET bounded == filterBookmarksByBounds(w.Bookmarks, c.sinceBound,
                                                c.untilBound)
             chosen  == filterBookmarksBySelect(bounded, c.selectExpr)
         IN  IF chosen.err # NilErr THEN UsageError(c, "select")
             ELSE [c EXCEPT !.pc = "exit", !.printed = idsOf(chosen.bookmarks)]

\* the cmd and the runs after the command went on from its folder id
Enter(c) ==
    /\ cmd' = prepare(c)
    /\ wk' = IF prepare(c).pc = "walk"
             THEN <<begin(Run(paramsOf(c), c.file))>> ELSE wk

\* the command runs from its flags to its first request or to its exit
CmdStart ==
    /\ cmd.pc = "flags"
    /\ IF flagError(cmd) # ""
       THEN cmd' = UsageError(cmd, flagError(cmd)) /\ UNCHANGED wk
       ELSE IF needsFolderList(cmd.folder)
       THEN /\ cmd' = [cmd EXCEPT !.pc = "folders",
                                  !.folderRequests = cmd.folderRequests + 1]
            /\ UNCHANGED wk
       ELSE Enter(cmd)
    /\ UNCHANGED <<tvars, batch, fn, job>>

\* client.ListFolders returns: the folder is found, is missing, or the
\* request failed
CmdFoldersReturn ==
    /\ cmd.pc = "folders"
    /\ \E res \in {"found", "missing", "error"} :
          IF res = "found" THEN Enter(cmd)
          ELSE /\ cmd' = Failure(cmd, IF res = "error" THEN Err("net")
                                      ELSE Err("folder"))
               /\ UNCHANGED wk
    /\ UNCHANGED <<tvars, batch, fn, job>>

\* listBookmarks has returned: the command filters, prints and exits
CmdFinish ==
    /\ cmd.pc = "walk"
    /\ wk[1].pc = "done"
    /\ cmd' = finish(cmd, wk[1])
    /\ UNCHANGED <<tvars, wk, batch, fn, job>>

\* the flag values tried
LimitArgs == {-1, 0, 25, 501}

MaxPagesArgs == -1 .. MaxPagesFlag

SinceArgs == {"", "bogus:1"}

UntilArgs == {"", "250", "Time: "}

UpdatedSinceArgs == {"", "soon"}

SelectArgs == {"", "starred=1", "starred>1"}

FolderArgs == {"unread", "Reading"}

Commands ==
    { Command(name, limit, maxPages, since, until, updatedSince, selectExpr,
              folder, cursorPath, outputDir,
              marshalCursor(NewCursor("5" :> cursorEntry("old", 0, 0)))) :
        name \in {"list", "export"}, limit \in LimitArgs,
        maxPages \in MaxPagesArgs, since \in SinceArgs, until \in UntilArgs,
        updatedSince \in UpdatedSinceArgs, selectExpr \in SelectArgs,
        folder \in FolderArgs, cursorPath \in {"", CursorFile},
        outputDir \in {"", "out"} }

CInit ==
    /\ TIdle
    /\ wk = <<>>
    /\ cmd \in {c \in Commands : c.outputDir # "" => c.name = "export"}
    /\ batch = NoBatch
    /\ fn = NoCall
    /\ job = NoJob

CNext ==
    \/ CmdStart \/ CmdFoldersReturn \/ CmdFinish
    \/ PageReturn \/ SaveWrite \/ SaveRename \/ SaveRemove \/ SaveRename2

SpecCmd == CInit /\ [][CNext]_vars

-----------------------------------------------------------------------------
(* Part IV: the batch loops of runBookmarkMutation (archive, unarchive,     *)
(* star, unstar), runDelete, runAdd (URLs from stdin) and runImport         *)

\* largest number of items in a batch
MaxItems == 3

\* a batch command over n items: --batch, --retry-backoff (ms), --idempotent
Batch(name, n, batchN, pauseMs, idempotent) ==
    [name |-> name, n |-> n, batchN |-> batchN, backoff |-> pauseMs,
     idempotent |-> idempotent,
     pc |-> "start", exit |-> 0,
     \* logs: the calls started, the error of each call that returned, the
     \* pauses begun (after which item, how long)
     started |-> 0, results |-> <<>>, pauses |-> <<>>]

\* isAlreadyStateError, by the error code (the message is not modelled)
isAlreadyStateError(err) == err.kind = "api" /\ err.code = 1601

\* the item counts as failed: its error is reported and enters the exit code
itemFailed(b, err) ==
    /\ err # NilErr
    /\ ~(b.name = "mutation" /\ b.idempotent /\ isAlreadyStateError(err))

\* the exit variable after an item returned err
exitAfter(b, err) ==
    IF ~itemFailed(b, err) THEN b.exit
    ELSE IF b.name = "import" THEN exitCodeForError(err)
    ELSE IF exitCodeForError(err) > b.exit THEN exitCodeForError(err)
    ELSE b.exit

\* time.Sleep(opts.RetryBackoff) follows item k, which returned err
pauseDue(b, k, err) ==
    /\ b.batchN > 0
    /\ k % b.batchN = 0
    /\ b.backoff > 0
    /\ IF b.name = "mutation" THEN err = NilErr /\ k < b.n
       ELSE IF b.name = "delete" THEN k < b.n
       ELSE b.name = "add"

\* the loop goes on with item k + 1, or the command exits
nextItem(b, k) ==
    IF k < b.n THEN [b EXCEPT !.pc = "call", !.started = b.started + 1]
    ELSE [b EXCEPT !.pc = "exit"]

\* the loop body once the call for item k has returned err
itemReturn(b, err) ==
    LET k  == Len(b.results) + 1
        b1 == [b EXCEPT !.results = Append(b.results, err),
                        !.exit = exitAfter(b, err)]
    IN  IF pauseDue(b, k, err)
        THEN [b1 EXCEPT !.pc = "pause",
                        !.pauses = Append(b.pauses, [after |-> k, ms |-> b.backoff])]
        ELSE nextItem(b1, k)

\* the command checks its flags and starts the call for the first item
BatchStart ==
    /\ batch.pc = "start"
    /\ batch' = IF batch.batchN < 0 /\ batch.name # "import"
                THEN [batch EXCEPT !.pc = "exit", !.exit = UsageExit]
                ELSE nextItem(batch, 0)
    /\ UNCHANGED <<tvars, wk, cmd, fn, job>>

\* the responses and failures the call for one item may end with
ItemErrors == {NilErr, APIError(RateLimitCode), APIError(1601), APIError(1500),
               Err("net")}

\* the call for an item returns, retries included
BatchItemReturn ==
    /\ batch.pc = "call"
    /\ \E err \in ItemErrors : batch' = itemReturn(batch, err)
    /\ UNCHANGED <<tvars, wk, cmd, fn, job>>

\* time.Sleep returns
BatchPauseDone ==
    /\ batch.pc = "pause"
    /\ batch' = nextItem(batch, Len(batch.results))
    /\ UNCHANGED <<tvars, wk, cmd, fn, job>>

Batches ==
    { Batch(name, n, batchN, pauseMs, idempotent) :
        name \in {"mutation", "delete", "add", "import"}, n \in 1 .. MaxItems,
        batchN \in -1 .. 2, pauseMs \in {0, 250}, idempotent \in BOOLEAN }

BInit ==
    /\ TIdle
    /\ wk = <<>>
    /\ cmd = NoCmd
    /\ batch \in Batches
    /\ fn = NoCall
    /\ job = NoJob

BNext == BatchStart \/ BatchItemReturn \/ BatchPauseDone

SpecBatch == BInit /\ [][BNext]_vars

-----------------------------------------------------------------------------
(* Part V: exitCodeForError applied to one error *)

\* a call of a pure function: its name, its arguments, its result once it
\* has returned
ExitCall(err) == [name |-> "exitCodeForError", pc |-> "call", err |-> err, ret |-> 0]

\* the API error codes tried: every code of the documented ranges, the codes
\* around them and codes of no band
ErrorCodes == (1000 .. 1700) \cup {-1, 0, 1, 10, 14, 9999}

\* the non-nil errors tried: API errors, HTTP status errors, others
Errors ==
    { APIError(c) : c \in ErrorCodes }
    \cup { HTTPError(s) : s \in {400, 429, 500, 1040, 1500} }
    \cup { Err(k) : k \in {"net", "ctx", "time", "select"} }

ExitCodeCall ==
    /\ fn.name = "exitCodeForError"
    /\ fn.pc = "call"
    /\ fn' = [fn EXCEPT !.pc = "done", !.ret = exitCodeForError(fn.err)]
    /\ UNCHANGED <<tvars, wk, cmd, batch, job>>

EInit ==
    /\ TIdle
    /\ wk = <<>>
    /\ cmd = NoCmd
    /\ batch = NoBatch
    /\ job = NoJob
    /\ fn \in { ExitCall(err) : err \in Errors }

ENext == ExitCodeCall

SpecExit == EInit /\ [][ENext]_vars

-----------------------------------------------------------------------------
(* Part V: filterBookmarksByBounds applied to one page of bookmarks *)

\* the creation times and progress timestamps of the bookmarks tried
Times == {100, 200, 300}

Stamps == {0, 250}

\* the bookmark lists tried: ids 1 .. n in order, every time and timestamp
BoundedLists ==
    UNION { { [x \in 1 .. n |-> Item(x, k[x][1], k[x][2], FALSE, <<>>, "")] :
                k \in [1 .. n -> Times \X Stamps] } : n \in 0 .. MaxItems }

\* --since and --until as given on the command line
SinceFlags == {"", "150", "updated:200", "id:2"}

UntilFlags == {"", "250", "300", "updated:250"}

BoundsCall(bookmarks, since, until) ==
    [name |-> "filterBookmarksByBounds", pc |-> "call", bookmarks |-> bookmarks,
     since |-> since, until |-> until, ret |-> <<>>]

FilterByBoundsCall ==
    /\ fn.name = "filterBookmarksByBounds"
    /\ fn.pc = "call"
    /\ fn' = [fn EXCEPT !.pc = "done",
                        !.ret = IF fn.since.isNil /\ fn.until.isNil
                                THEN fn.bookmarks
                                ELSE filterBookmarksByBounds(fn.bookmarks,
                                                             fn.since, fn.until)]
    /\ UNCHANGED <<tvars, wk, cmd, batch, job>>

FInit ==
    /\ TIdle
    /\ wk = <<>>
    /\ cmd = NoCmd
    /\ batch = NoBatch
    /\ job = NoJob
    /\ fn \in { BoundsCall(bs, parseBoundSpec(s, "time").bound,
                               parseBoundSpec(u, "time").bound) :
                  bs \in BoundedLists, s \in SinceFlags, u \in UntilFlags }

FNext == FilterByBoundsCall

SpecBounds == FInit /\ [][FNext]_vars

-----------------------------------------------------------------------------
(* Part V: filterBookmarksBySelect applied to one page of bookmarks *)

\* the tag lists of the bookmarks tried
TagLists == {<<"news">>, <<"misc">>, <<"misc", "Daily News">>}

\* the bookmark lists tried: ids 1 .. n in order, starred or not, every
\* tag list
TaggedLists ==
    UNION { { [x \in 1 .. n |-> Item(x, 100, 0, k[x][1], k[x][2], "Hello")] :
                k \in [1 .. n -> BOOLEAN \X TagLists] } : n \in 0 .. MaxItems }

\* --select as given on the command line
SelectFlags == {"starred=1,tag~news", "tag=News", "tag!=news",
                "tags~NEWS, starred=0", "starred=1"}

SelectCall(bookmarks, expr) ==
    [name |-> "filterBookmarksBySelect", pc |-> "call", bookmarks |-> bookmarks,
     expr |-> expr, ret |-> [bookmarks |-> <<>>, err |-> NilErr]]

FilterBySelectCall ==
    /\ fn.name = "filterBookmarksBySelect"
    /\ fn.pc = "call"
    /\ fn' = [fn EXCEPT !.pc = "done",
                        !.ret = filterBookmarksBySelect(fn.bookmarks, fn.expr)]
    /\ UNCHANGED <<tvars, wk, cmd, batch, job>>

SInit ==
    /\ TIdle
    /\ wk = <<>>
    /\ cmd = NoCmd
    /\ batch = NoBatch
    /\ job = NoJob
    /\ fn \in { SelectCall(bs, e) : bs \in TaggedLists, e \in SelectFlags }

SNext == FilterBySelectCall

SpecSelect == SInit /\ [][SNext]_vars

-----------------------------------------------------------------------------
(* Part V: parseBookmarksListResponse applied to response bodies *)

\* largest number of elements of an array response
MaxElems == 4

\* a decoded JSON object of a response: its type tag, its id (user_id,
\* bookmark_id, highlight_id or error_code), its delete_ids
Elem(type, id, ids) == [type |-> type, id |-> id, ids |-> ids]

\* no JSON object: the key is absent
NoElem == Elem("", 0, <<>>)

\* a response body: the first byte after trimming ("" when nothing is
\* left), whether json.Unmarshal accepts it, and the decoded value
JSONBody(lead, valid, json) == [lead |-> lead, valid |-> valid, json |-> json]

\* json.Unmarshal of an object into User, Bookmark, Highlight
unmarshalUser(e) == [Type |-> e.type, UserID |-> e.id]

unmarshalBookmark(e) == [Type |-> e.type, BookmarkID |-> e.id]

unmarshalHighlight(e) == [Type |-> e.type, HighlightID |-> e.id]

\* the zero BookmarksListResponse
NoResponse ==
    [User |-> unmarshalUser(NoElem), Bookmarks |-> <<>>, Highlights |-> <<>>,
     DeleteIDs |-> <<>>]

\* json.Unmarshal of a top-level object into BookmarksListResponse
unmarshalResponse(obj) ==
    [User |-> unmarshalUser(obj.user),
     Bookmarks |-> [x \in 1 .. Len(obj.bookmarks) |-> unmarshalBookmark(obj.bookmarks[x])],
     Highlights |-> [x \in 1 .. Len(obj.highlights) |-> unmarshalHighlight(obj.highlights[x])],
     DeleteIDs |-> obj.delete_ids]

\* mutant of arrayStep: a "delete" element replaces the ids collected so far
arrayStep_replace(resp, it) ==
    IF it.type = "user" THEN [resp EXCEPT !.User = unmarshalUser(it)]
    ELSE IF it.type = "bookmark"
    THEN [resp EXCEPT !.Bookmarks = Append(resp.Bookmarks, unmarshalBookmark(it))]
    ELSE IF it.type = "highlight"
    THEN [resp EXCEPT !.Highlights = Append(resp.Highlights, unmarshalHighlight(it))]
    ELSE IF it.type = "delete" THEN [resp EXCEPT !.DeleteIDs = it.ids]
    ELSE resp

\* the switch on kind.Type for one element of the array
arrayStep(resp, it) ==
    IF it.type = "user" THEN [resp EXCEPT !.User = unmarshalUser(it)]
    ELSE IF it.type = "bookmark"
    THEN [resp EXCEPT !.Bookmarks = Append(resp.Bookmarks, unmarshalBookmark(it))]
    ELSE IF it.type = "highlight"
    THEN [resp EXCEPT !.Highlights = Append(resp.Highlights, unmarshalHighlight(it))]
    ELSE IF it.type = "delete" THEN [resp EXCEPT !.DeleteIDs = resp.DeleteIDs \o it.ids]
    ELSE resp

RECURSIVE arrayLoop(_, _)
\* for _, it := range items
arrayLoop(resp, items) ==
    IF items = <<>> THEN resp
    ELSE arrayLoop(arrayStep(resp, Head(items)), Tail(items))

\* decodeArray: the error it returns; parseAPIError looks at the first
\* element
decodeArray(body) ==
    IF ~body.valid THEN Err("json")
    ELSE IF Len(body.json) > 0 /\ body.json[1].type = "error"
    THEN APIError(body.json[1].id)
    ELSE NilErr

\* parseBookmarksListResponse(b): the response and the error.  Elements
\* whose fields have the wrong JSON type are not modelled.
parseBookmarksListResponse(body) ==
    IF body.lead = "" THEN [resp |-> NoResponse, err |-> Err("empty body")]
    ELSE IF body.lead = "{"
    THEN IF ~body.valid THEN [resp |-> NoResponse, err |-> Err("json")]
         ELSE [resp |-> unmarshalResponse(body.json), err |-> NilErr]
    ELSE IF body.lead = "["
    THEN IF decodeArray(body) # NilErr
         THEN [resp |-> NoResponse, err |-> decodeArray(body)]
         ELSE [resp |-> arrayLoop(NoResponse, body.json), err |-> NilErr]
    ELSE [resp |-> NoResponse, err |-> Err("invalid JSON response")]

\* the elements of the array responses tried
Elements ==
    { Elem("user", 1, <<>>), Elem("bookmark", 9, <<>>), Elem("bookmark", 10, <<>>),
      Elem("highlight", 3, <<>>), Elem("delete", 0, <<4, 5>>),
      Elem("delete", 0, <<7>>), Elem("meta", 0, <<>>), Elem("error", RateLimitCode, <<>>) }

\* the array responses tried: at most one user element
ElementLists ==
    { items \in UNION { [1 .. n -> Elements] : n \in 0 .. MaxElems } :
        Cardinality({ x \in 1 .. Len(items) : items[x].type = "user" }) <= 1 }

OfType(items, type) == LET Is(e) == e.type = type IN SelectSeq(items, Is)

RECURSIVE Flatten(_)
\* the delete ids of the delete elements, one after another
Flatten(deletes) ==
    IF deletes = <<>> THEN <<>> ELSE Head(deletes).ids \o Flatten(Tail(deletes))

\* the elements of one type as a top-level object carries them: with their
\* "type" member, or without it
Nested(items, type, tagged) ==
    [x \in 1 .. Len(OfType(items, type)) |->
        IF tagged THEN OfType(items, type)[x]
        ELSE [OfType(items, type)[x] EXCEPT !.type = ""]]

\* the top-level object that carries the items of an array response: the
\* user under "user", the bookmarks and highlights in order, the delete ids
ObjectOf(items, tagged) ==
    [user |-> IF OfType(items, "user") = <<>> THEN NoElem
              ELSE Nested(items, "user", tagged)[1],
     bookmarks |-> Nested(items, "bookmark", tagged),
     highlights |-> Nested(items, "highlight", tagged),
     delete_ids |-> Flatten(OfType(items, "delete"))]

\* the bodies that are neither an object nor an array, as text, and the
\* first byte parseBookmarksListResponse switches on
OtherTexts == {"", "  ", "null", "42", " oops"}

OtherBody(text) ==
    JSONBody(IF TrimSpace(text) = "" THEN "" ELSE SubSeq(TrimSpace(text), 1, 1),
             TrimSpace(text) \in {"null", "42"}, <<>>)

\* the bodies parsed in one run: the two shapes of one response, or a body
\* of neither shape, or a truncated object or array
BodyLists ==
    { <<JSONBody("{", TRUE, ObjectOf(items, tagged)), JSONBody("[", TRUE, items)>> :
        items \in ElementLists, tagged \in BOOLEAN }
    \cup { <<OtherBody(text)>> : text \in OtherTexts }
    \cup { <<JSONBody("{", FALSE, <<>>)>>, <<JSONBody("[", FALSE, <<>>)>> }

ParseCalls(bodies) ==
    [name |-> "parseBookmarksListResponse", bodies |-> bodies, rets |-> <<>>]

\* the next body is parsed
ParseCall ==
    /\ fn.name = "parseBookmarksListResponse"
    /\ Len(fn.rets) < Len(fn.bodies)
    /\ fn' = [fn EXCEPT !.rets =
                Append(fn.rets, parseBookmarksListResponse(fn.bodies[Len(fn.rets) + 1]))]
    /\ UNCHANGED <<tvars, wk, cmd, batch, job>>

RInit ==
    /\ TIdle
    /\ wk = <<>>
    /\ cmd = NoCmd
    /\ batch = NoBatch
    /\ job = NoJob
    /\ fn \in { ParseCalls(bodies) : bodies \in BodyLists }

RNext == ParseCall

SpecParse == RInit /\ [][RNext]_vars

-----------------------------------------------------------------------------
(* Part VI: two invocations saving to the same path.  saveCursor and       *)
(* Config.Save run the same file operations: WriteFile(path + ".tmp"),     *)
(* Rename(tmp, path) and, when it fails, Remove(path), Rename(tmp, path),  *)
(* Remove(tmp).  A directory maps the two names to files; a file is a      *)
(* sequence of bytes, the bytes of invocation k being k.                   *)

\* longest marshalled state, in bytes
MaxBytes == 2

\* the marshalled state of invocation k, n bytes long
Bytes(k, n) == [x \in 1 .. n |-> k]

\* the file saved earlier
OldBytes == <<0>>

\* no file under a name
NoFile == 0

\* one invocation inside saveCursor: position, the file it holds open,
\* the bytes it saves, the error it returned
Saver(k, n) == [pc |-> "open", fd |-> NoFile, b |-> Bytes(k, n), err |-> NilErr]

\* the directory, the files, the two invocations; replace: os.Rename
\* replaces an existing destination on this platform
SaveJob(replace, old, n1, n2) ==
    [name |-> "save", replace |-> replace,
     dir |-> [path |-> IF old THEN 1 ELSE NoFile, tmp |-> NoFile],
     files |-> <<OldBytes>>,
     procs |-> <<Saver(1, n1), Saver(2, n2)>>]

\* os.WriteFile, OpenFile(O_WRONLY|O_CREATE|O_TRUNC): the file under tmp is
\* truncated, or a new file is created under tmp
saveOpen(j, k) ==
    IF j.dir.tmp # NoFile
    THEN [j EXCEPT !.files[j.dir.tmp] = <<>>,
                   !.procs[k].fd = j.dir.tmp, !.procs[k].pc = "write"]
    ELSE [j EXCEPT !.files = Append(j.files, <<>>),
                   !.dir.tmp = Len(j.files) + 1,
                   !.procs[k].fd = Len(j.files) + 1, !.procs[k].pc = "write"]

\* os.WriteFile, f.Write and f.Close: the bytes go to offset 0 of the open
\* file, whatever name it has by now
saveBytes(j, k) ==
    LET b   == j.procs[k].b
        old == j.files[j.procs[k].fd]
    IN  [j EXCEPT !.files[j.procs[k].fd] = b \o SubSeq(old, Len(b) + 1, Len(old)),
                  !.procs[k].pc = "rename"]

\* os.Rename(tmp, path) succeeds
canRename(j) == j.dir.tmp # NoFile /\ (j.replace \/ j.dir.path = NoFile)

\* the first os.Rename(tmp, path)
firstRename(j, k) ==
    IF canRename(j)
    THEN [j EXCEPT !.dir.path = j.dir.tmp, !.dir.tmp = NoFile,
                   !.procs[k].pc = "done"]
    ELSE [j EXCEPT !.procs[k].pc = "remove"]

\* _ = os.Remove(path)
removePath(j, k) == [j EXCEPT !.dir.path = NoFile, !.procs[k].pc = "rename2"]

\* the second os.Rename(tmp, path)
secondRename(j, k) ==
    IF canRename(j)
    THEN [j EXCEPT !.dir.path = j.dir.tmp, !.dir.tmp = NoFile,
                   !.procs[k].pc = "done"]
    ELSE [j EXCEPT !.procs[k].pc = "cleanup"]

\* _ = os.Remove(tmp); return err2
removeTmp(j, k) ==
    [j EXCEPT !.dir.tmp = NoFile, !.procs[k].pc = "done",
              !.procs[k].err = Err("rename")]

\* invocation k takes its next file operation
saveStep(j, k) ==
    CASE j.procs[k].pc = "open" -> saveOpen(j, k)
      [] j.procs[k].pc = "write" -> saveBytes(j, k)
      [] j.procs[k].pc = "rename" -> firstRename(j, k)
      [] j.procs[k].pc = "remove" -> removePath(j, k)
      [] j.procs[k].pc = "rename2" -> secondRename(j, k)
      [] OTHER -> removeTmp(j, k)

SaveStep ==
    /\ job.name = "save"
    /\ \E k \in 1 .. 2 :
          /\ job.procs[k].pc # "done"
          /\ job' = saveStep(job, k)
    /\ UNCHANGED <<tvars, wk, cmd, batch, fn>>

\* everything but job is idle
JIdle == TIdle /\ wk = <<>> /\ cmd = NoCmd /\ batch = NoBatch /\ fn = NoCall

VInit ==
    /\ JIdle
    /\ job \in { SaveJob(replace, old, n1, n2) :
                   replace \in BOOLEAN, old \in BOOLEAN,
                   n1 \in 1 .. MaxBytes, n2 \in 1 .. MaxBytes }

VNext == SaveStep

SpecSave == VInit /\ [][VNext]_vars

-----------------------------------------------------------------------------
(* Part VI: runDelete *)

\* ip delete: the ids collected, --yes-really-delete, --confirm, --batch,
\* the global --dry-run; sent logs the ids of the delete requests
DeleteJob(ids, yes, confirm, batchN, dryRun) ==
    [name |-> "delete", ids |-> ids, yes |-> yes, confirm |-> confirm,
     batchN |-> batchN, dryRun |-> dryRun,
     pc |-> "start", exit |-> 0, refusal |-> "", sent |-> <<>>]

\* mutant of deleteRefused: no confirmation is asked for
deleteRefused_never(j) == FALSE

\* !opts.DryRun && !yes && confirm == ""
deleteRefused(j) == ~j.dryRun /\ ~j.yes /\ j.confirm = ""

\* the checks of runDelete before the client is made: "" when they pass
deleteCheck(j) ==
    IF Len(j.ids) = 0 THEN "usage"
    ELSE IF j.batchN < 0 THEN "batch"
    ELSE IF Len(j.ids) > 1 /\ j.confirm # "" THEN "single"
    ELSE IF deleteRefused(j) THEN "refusing"
    ELSE IF j.confirm # "" /\ FormatInt(j.ids[1]) # j.confirm THEN "match"
    ELSE ""

\* the request for the next id goes out, or the loop is over
deleteNext(j) ==
    IF Len(j.sent) < Len(j.ids)
    THEN [j EXCEPT !.pc = "call", !.sent = Append(j.sent, j.ids[Len(j.sent) + 1])]
    ELSE [j EXCEPT !.pc = "exit"]

\* runDelete up to its first request
deleteStart(j) ==
    IF deleteCheck(j) = "match"
    THEN [j EXCEPT !.pc = "exit", !.exit = printError(Err("confirm")),
                   !.refusal = "match"]
    ELSE IF deleteCheck(j) # ""
    THEN [j EXCEPT !.pc = "exit", !.exit = UsageExit, !.refusal = deleteCheck(j)]
    ELSE IF j.dryRun THEN [j EXCEPT !.pc = "exit", !.exit = 0]
    ELSE deleteNext(j)

DeleteStart ==
    /\ job.name = "delete"
    /\ job.pc = "start"
    /\ job' = deleteStart(job)
    /\ UNCHANGED <<tvars, wk, cmd, batch, fn>>

\* client.DeleteBookmark returns
DeleteReturn ==
    /\ job.name = "delete"
    /\ job.pc = "call"
    /\ \E err \in {NilErr, APIError(RateLimitCode), Err("net")} :
          job' = deleteNext([job EXCEPT !.exit =
                     IF err # NilErr /\ exitCodeForError(err) > job.exit
                     THEN exitCodeForError(err) ELSE job.exit])
    /\ UNCHANGED <<tvars, wk, cmd, batch, fn>>

DeleteJobs ==
    { DeleteJob(ids, yes, confirm, batchN, dryRun) :
        ids \in {<<>>, <<5>>, <<123>>, <<5, 123>>, <<123, 5>>},
        yes \in BOOLEAN, confirm \in {"", "5", "123", "0123"},
        batchN \in {-1, 0}, dryRun \in BOOLEAN }

DInit == JIdle /\ job \in DeleteJobs

DNext == DeleteStart \/ DeleteReturn

SpecDelete == DInit /\ [][DNext]_vars

-----------------------------------------------------------------------------
(* Part VI: the mutating commands under the global --dry-run flag.  A      *)
(* command is the sequence of its steps: "confirm" (the refusal without a  *)
(* confirmation flag), "read" (a request that changes nothing), "dryrun"   *)
(* (if opts.DryRun: print the preview and return), "mutate" (a request     *)
(* that changes the account) and "save" (cfg.Save).                        *)

\* the steps of each mutating command, in the order of its code
Steps(command) ==
    CASE command \in {"add", "import", "progress", "archive", "unarchive", "star",
                      "unstar", "folders add", "folders order", "highlights add",
                      "highlights delete"}
           -> <<"dryrun", "mutate">>
      [] command = "move" -> <<"dryrun", "read", "mutate">>
      [] command = "delete" -> <<"confirm", "dryrun", "mutate">>
      [] command = "folders delete" -> <<"confirm", "read", "dryrun", "mutate">>
      [] command \in {"config set", "config unset", "auth logout"} -> <<"save">>
      [] OTHER -> <<"mutate", "read", "save">>

MutatingCommands ==
    {"add", "import", "progress", "archive", "unarchive", "star", "unstar", "move",
     "delete", "folders add", "folders delete", "folders order", "highlights add",
     "highlights delete", "config set", "config unset", "auth login", "auth logout"}

\* one invocation: the command, --dry-run, a confirmation flag, the steps
\* left; logs: the requests sent, the saves of the config file, the preview
DryRunJob(command, dryRun, yes) ==
    [name |-> "command", command |-> command, dryRun |-> dryRun, yes |-> yes,
     plan |-> Steps(command), pc |-> "run", exit |-> 0,
     reads |-> 0, mutations |-> 0, saves |-> 0, preview |-> FALSE]

\* the command ends with an exit code
commandExit(j, code) == [j EXCEPT !.pc = "exit", !.exit = code, !.plan = <<>>]

\* the step is done: the next one, or return 0
stepDone(j) ==
    IF Len(j.plan) = 1 THEN commandExit(j, 0) ELSE [j EXCEPT !.plan = Tail(j.plan)]

\* the head of the plan is run; ok: its request or its save succeeds
commandStep(j, ok) ==
    CASE Head(j.plan) = "confirm"
           -> IF ~j.dryRun /\ ~j.yes THEN commandExit(j, UsageExit) ELSE stepDone(j)
      [] Head(j.plan) = "dryrun"
           -> IF j.dryRun THEN commandExit([j EXCEPT !.preview = TRUE], 0)
              ELSE stepDone(j)
      [] Head(j.plan) = "read"
           -> IF ok THEN stepDone([j EXCEPT !.reads = j.reads + 1])
              ELSE commandExit([j EXCEPT !.reads = j.reads + 1], 1)
      [] Head(j.plan) = "mutate"
           -> IF ok THEN stepDone([j EXCEPT !.mutations = j.mutations + 1])
              ELSE commandExit([j EXCEPT !.mutations = j.mutations + 1], 1)
      [] OTHER
           -> IF ok THEN stepDone([j EXCEPT !.saves = j.saves + 1])
              ELSE commandExit(j, 1)

CommandStep ==
    /\ job.name = "command"
    /\ job.pc = "run"
    /\ \E ok \in BOOLEAN : job' = commandStep(job, ok)
    /\ UNCHANGED <<tvars, wk, cmd, batch, fn>>

YInit ==
    /\ JIdle
    /\ job \in { DryRunJob(command, dryRun, yes) :
                   command \in MutatingCommands, dryRun \in BOOLEAN, yes \in BOOLEAN }

YNext == CommandStep

SpecDryRun == YInit /\ [][YNext]_vars

-----------------------------------------------------------------------------
(* Part VI: the OAuth 1.0a signer, and the attempts of one signed call *)

\* F of the value of v, with v evaluated once
Once(F(_), v) == CHOOSE r \in {F(x) : x \in {v}} : TRUE

Unreserved == "-.0123456789ABCDEFGHIJKLMNOPQRSTUVWXYZ_abcdefghijklmnopqrstuvwxyz~"

\* fmt.Sprintf("%%%02X", c) for the reserved characters that occur
PercentCode(c) ==
    CASE c = " " -> "%20"
      [] c = "!" -> "%21"
      [] c = "%" -> "%25"
      [] c = "&" -> "%26"
      [] c = "+" -> "%2B"
      [] c = "," -> "%2C"
      [] c = "/" -> "%2F"
      [] c = ":" -> "%3A"
      [] c = "=" -> "%3D"
      [] c = "?" -> "%3F"

\* the escaped form of one byte
escapeByte(c) == IF IndexOf(Unreserved, c) # 0 THEN c ELSE PercentCode(c)

RECURSIVE escapeBytes(_, _, _)
\* the escaped forms of the bytes lo .. hi of s, half by half
escapeBytes(s, lo, hi) ==
    IF lo > hi THEN ""
    ELSE IF lo = hi THEN escapeByte(SubSeq(s, lo, lo))
    ELSE LET mid == (lo + hi) \div 2
         IN  escapeBytes(s, lo, mid) \o escapeBytes(s, mid + 1, hi)

escapeAll(s) == escapeBytes(s, 1, Len(s))

\* oauthEscape: every byte outside ALPHA / DIGIT / "-" / "." / "_" / "~"
\* becomes %XX
oauthEscape(s) == Once(escapeAll, s)

RECURSIVE ToUpper(_)
\* strings.ToUpper
ToUpper(s) ==
    IF s = "" THEN ""
    ELSE LET k == IndexOf(Lower, Head(s))
         IN  (IF k = 0 THEN Head(s) ELSE SubSeq(Upper, k, k)) \o ToUpper(Tail(s))

\* a *Token that is nil
NoToken == [Key |-> "", Secret |-> "", isNil |-> TRUE]

Token(key, secret) == [Key |-> key, Secret |-> secret, isNil |-> FALSE]

\* NewSigner
NewSigner(consumerKey, consumerSecret) ==
    [ConsumerKey |-> consumerKey, ConsumerSecret |-> consumerSecret]

\* the pair order of normalizeParams: by key, then by value
pairLess(p, q) ==
    IF p[1] = q[1] THEN StrLess(p[2], q[2]) ELSE StrLess(p[1], q[1])

\* sort.Slice(pairs, ...): the pair at every rank; equal pairs keep their
\* order
sortPairs(pairs) ==
    LET n == Len(pairs)
        before(y, x) == pairLess(pairs[y], pairs[x]) \/ (pairs[y] = pairs[x] /\ y < x)
    IN  [r \in 1 .. n |->
            pairs[CHOOSE x \in 1 .. n : Cardinality({y \in 1 .. n : before(y, x)}) = r - 1]]

\* the escaped pair of a parameter
escapePair(p) == <<oauthEscape(p[1]), oauthEscape(p[2])>>

\* k=v for every pair, joined by "&"
joinPairs(sorted) ==
    Join([x \in 1 .. Len(sorted) |-> sorted[x][1] \o "=" \o sorted[x][2]], "&")

\* the pairs of a map in some order
pairsOf(params) ==
    LET keys == SortStrings(DOMAIN params)
    IN  [x \in 1 .. Len(keys) |-> <<keys[x], params[keys[x]]>>]

\* normalizeParams: the escaped pairs of the OAuth parameters and of the
\* body parameters, sorted, as k=v joined by "&".  oauthParams is a
\* function from names to values, bodyParams a sequence of <<k, v>>.
normalizeParams(oauthParams, bodyParams) ==
    LET all == pairsOf(oauthParams) \o bodyParams
        pairs == [x \in 1 .. Len(all) |-> escapePair(all[x])]
    IN  Once(joinPairs, Once(sortPairs, pairs))

\* normalizeURL: url.Parse of scheme://host/path?query; the scheme and the
\* host in lower case, no query, "/" for an empty path; "" with err for a
\* URL without scheme or host
normalizeURL(rawURL) ==
    LET at == IndexStr(rawURL, "://", 1)
        scheme == IF at = 0 THEN "" ELSE SubSeq(rawURL, 1, at - 1)
        rest == IF at = 0 THEN rawURL ELSE SubSeq(rawURL, at + 3, Len(rawURL))
        slash == IndexOf(rest, "/")
        host == IF at = 0 THEN "" ELSE IF slash = 0 THEN rest ELSE SubSeq(rest, 1, slash - 1)
        pathq == IF slash = 0 THEN "" ELSE SubSeq(rest, slash, Len(rest))
        q == IndexOf(pathq, "?")
        path == IF q = 0 THEN pathq ELSE SubSeq(pathq, 1, q - 1)
    IN  IF scheme = "" \/ host = "" THEN [url |-> "", err |-> "invalid URL"]
        ELSE [url |-> ToLower(scheme) \o "://" \o ToLower(host)
                      \o (IF path = "" THEN "/" ELSE path),
              err |-> ""]

DigestModulus == 9973

RECURSIVE digestOf(_, _, _)
\* a digest of the bytes lo .. hi of s: position-weighted, of fixed range
digestOf(s, lo, hi) ==
    IF lo > hi THEN 0
    ELSE IF lo = hi THEN (CharRank[SubSeq(s, lo, lo)] * (lo + 30)) % DigestModulus
    ELSE LET mid == (lo + hi) \div 2
         IN  (digestOf(s, lo, mid) + digestOf(s, mid + 1, hi)) % DigestModulus

\* signHMACSHA1: a keyed digest of the message in printable form.  The
\* value depends on every byte of the key and of the message and shows
\* neither.
signHMACSHA1(key, msg) ==
    LET digest(keyed) == "h" \o FormatNat(digestOf(keyed, 1, Len(keyed))) \o "="
    IN  Once(digest, key \o "&" \o msg \o "&" \o key)

\* mutant of randomNonce: the nonce of the first attempt is kept
randomNonce_kept(reads) == "a1f"

\* randomNonce(16): the hex form of 16 bytes read from crypto/rand.  The
\* source is modelled by the number of reads made from it so far: no two
\* reads of 128 random bits return the same bytes.
randomNonce(reads) == "a" \o FormatNat(reads) \o "f"

\* the OAuth parameters with the token secret among them
oauthParams_withSecret(s, token, nonce, ts) ==
    [k \in {"oauth_consumer_key", "oauth_nonce", "oauth_signature_method",
            "oauth_timestamp", "oauth_version", "oauth_token", "oauth_token_secret"} |->
        CASE k = "oauth_consumer_key" -> s.ConsumerKey
          [] k = "oauth_nonce" -> nonce
          [] k = "oauth_signature_method" -> "HMAC-SHA1"
          [] k = "oauth_timestamp" -> FormatInt(ts)
          [] k = "oauth_version" -> "1.0"
          [] k = "oauth_token" -> token.Key
          [] k = "oauth_token_secret" -> token.Secret]

\* the OAuth parameters before the signature is added
oauthParams(s, token, nonce, ts) ==
    LET base == [k \in {"oauth_consumer_key", "oauth_nonce", "oauth_signature_method",
                        "oauth_timestamp", "oauth_version"} |->
                    CASE k = "oauth_consumer_key" -> s.ConsumerKey
                      [] k = "oauth_nonce" -> nonce
                      [] k = "oauth_signature_method" -> "HMAC-SHA1"
                      [] k = "oauth_timestamp" -> FormatInt(ts)
                      [] k = "oauth_version" -> "1.0"]
    IN  IF ~token.isNil /\ token.Key # ""
        THEN base @@ ("oauth_token" :> token.Key)
        ELSE base

\* the signing key: the escaped consumer secret, "&", the escaped token
\* secret of a token that is not nil
signingKey(s, token) ==
    oauthEscape(s.ConsumerSecret) \o "&"
    \o (IF ~token.isNil THEN oauthEscape(token.Secret) ELSE "")

\* the parameters, the signature among them, as k="v" in key order
headerOf(params) ==
    LET keys == SortStrings(DOMAIN params)
    IN  "OAuth " \o Join([x \in 1 .. Len(keys) |->
                             keys[x] \o "=\"" \o oauthEscape(params[keys[x]]) \o "\""],
                         ", ")

\* Signer.AuthorizationHeader with the nonce read and the time of the call
AuthorizationHeader(s, method, rawURL, bodyParams, token, nonce, ts) ==
    IF s.ConsumerKey = "" \/ s.ConsumerSecret = ""
    THEN [header |-> "", params |-> <<>>, err |-> "missing consumer credentials"]
    ELSE LET params == oauthParams(s, token, nonce, ts)
             normalized == normalizeURL(rawURL)
             paramString == normalizeParams(params, bodyParams)
             baseString == ToUpper(method) \o "&" \o oauthEscape(normalized.url)
                           \o "&" \o oauthEscape(paramString)
             signed(sig) == params @@ ("oauth_signature" :> sig)
             result(all) == [header |-> headerOf(all), params |-> all, err |-> ""]
         IN  IF normalized.err # ""
             THEN [header |-> "", params |-> <<>>, err |-> normalized.err]
             ELSE Once(result, Once(signed, signHMACSHA1(signingKey(s, token), baseString)))

\* one call of postForm seen from its Authorization headers: the attempts
\* left, the clock (time.Now in seconds), the reads made from crypto/rand,
\* and for every attempt made what AuthorizationHeader returned
SignJob(s, token, rawURL, form, tries, now) ==
    [name |-> "sign", pc |-> "attempt", signer |-> s, token |-> token,
     url |-> rawURL, form |-> form, left |-> tries, clock |-> now,
     reads |-> 0, made |-> <<>>]

\* postFormOnce signs the request anew: a nonce is read, the clock is read,
\* and the header is built from them
signOnce(j) ==
    AuthorizationHeader(j.signer, "POST", j.url, j.form, j.token,
                        randomNonce(j.reads + 1), j.clock)

\* one iteration of the loop of postForm with what postFormOnce signed;
\* after an outcome that is retried the loop sleeps (the clock advances by
\* slept seconds) while attempts are left
signAttempt(j, auth, retried, slept) ==
    LET entry == [nonce |-> IF auth.err = "" THEN randomNonce(j.reads + 1) ELSE "",
                  ts |-> j.clock, header |-> auth.header, params |-> auth.params,
                  err |-> auth.err]
        again == (retried \/ auth.err # "") /\ j.left > 1
    IN  [j EXCEPT !.reads = IF j.signer.ConsumerKey = "" \/ j.signer.ConsumerSecret = ""
                            THEN @ ELSE @ + 1,
                  !.made = Append(@, entry),
                  !.left = @ - 1,
                  !.clock = IF again THEN @ + slept ELSE @,
                  !.pc = IF again THEN "attempt" ELSE "exit"]

Signers == {NewSigner("ck", "c&s"), NewSigner("", "c&s")}

Tokens == {NoToken, Token("tk", "t/s"), Token("", "t/s")}

RawURLs == {"https://Api.test/1/list?x=1", "http://api.test", "api.test/1/list"}

Forms ==
    { <<>>,
      << <<"x_auth_username", "u1">>, <<"x_auth_password", "p w">> >>,
      << <<"url", "u:1">>, <<"oauth_callback", "cb">> >> }

StartTime == 100

SignStart ==
    /\ job = NoJob
    /\ \E s \in Signers, token \in Tokens, rawURL \in RawURLs, form \in Forms,
          tries \in 1 .. MaxRetry + 1 :
          job' = SignJob(s, token, rawURL, form, tries, StartTime)
    /\ UNCHANGED <<tvars, wk, cmd, batch, fn>>

SignAttempt ==
    /\ job # NoJob
    /\ job.name = "sign"
    /\ job.pc = "attempt"
    /\ \E auth \in {signOnce(job)}, retried \in BOOLEAN, slept \in 0 .. 1 :
          job' = signAttempt(job, auth, retried, slept)
    /\ UNCHANGED <<tvars, wk, cmd, batch, fn>>

GInit == JIdle /\ job = NoJob

GNext == SignStart \/ SignAttempt

SpecSign == GInit /\ [][GNext]_vars

-----------------------------------------------------------------------------
(* Part VI: Int64.UnmarshalJSON *)

\* a JSON number literal: -? (0 | [1-9][0-9]*) (. [0-9]+)?, without exponent
validNumber(t) ==
    LET body == IF t # "" /\ Head(t) = "-" THEN Tail(t) ELSE t
        dot == IndexOf(body, ".")
        int == IF dot = 0 THEN body ELSE SubSeq(body, 1, dot - 1)
        frac == IF dot = 0 THEN "" ELSE SubSeq(body, dot + 1, Len(body))
    IN  /\ int # ""
        /\ AllDigits(int)
        /\ Len(int) > 1 => Head(int) # "0"
        /\ dot # 0 => (frac # "" /\ AllDigits(frac))

\* json.Unmarshal(b, &s) of a quoted string without escapes
unquote(t) ==
    IF Len(t) >= 2 /\ SubSeq(t, Len(t), Len(t)) = "\"" /\ IndexOf(SubSeq(t, 2, Len(t) - 1), "\"") = 0
    THEN [ok |-> TRUE, s |-> SubSeq(t, 2, Len(t) - 1)]
    ELSE [ok |-> FALSE, s |-> ""]

\* Int64.UnmarshalJSON(b): the value stored and the error returned
UnmarshalInt64(b) ==
    LET t == TrimSpace(b)
    IN  IF t = "" \/ t = "null" THEN [value |-> 0, err |-> ""]
        ELSE IF Head(t) = "\""
        THEN LET q == unquote(t)
                 v == ParseInt(q.s)
             IN  IF ~q.ok THEN [value |-> 0, err |-> "json"]
                 ELSE IF q.s = "" THEN [value |-> 0, err |-> ""]
                 ELSE IF ~v.ok THEN [value |-> 0, err |-> "parse int64"]
                 ELSE [value |-> v.val, err |-> ""]
        ELSE LET v == ParseInt(t)
             IN  IF ~validNumber(t) THEN [value |-> 0, err |-> "json"]
                 ELSE IF ~v.ok THEN [value |-> 0, err |-> "parse int64"]
                 ELSE [value |-> v.val, err |-> ""]

\* the integer parts and the fractional parts of the numbers tried
IntParts == {"0", "7", "42", "1768856911"}

FracParts == {"", ".0", ".4784305", ".9", "."}

\* the JSON texts tried: numbers with and without a sign and a fraction,
\* bare and quoted, with and without white space around them, and texts
\* that are no number
NumberTexts ==
    {sign \o int \o frac : sign \in {"", "-"}, int \in IntParts, frac \in FracParts}

JSONTexts ==
    {pad \o t \o pad : pad \in {"", " "}, t \in NumberTexts}
    \cup {pad \o "\"" \o t \o "\"" \o pad : pad \in {"", " "}, t \in NumberTexts}
    \cup {"", "null", "\"\"", "\"abc\"", "\"+7\"", "007", "\"7"}

Int64Call(b) == [name |-> "Int64.UnmarshalJSON", pc |-> "call", b |-> b, value |-> 0, err |-> ""]

UnmarshalInt64Call ==
    /\ fn.name = "Int64.UnmarshalJSON"
    /\ fn.pc = "call"
    /\ \E r \in {UnmarshalInt64(fn.b)} :
          fn' = [fn EXCEPT !.pc = "done", !.value = r.value, !.err = r.err]
    /\ UNCHANGED <<tvars, wk, cmd, batch, job>>

IInit ==
    /\ TIdle
    /\ wk = <<>>
    /\ cmd = NoCmd
    /\ batch = NoBatch
    /\ job = NoJob
    /\ fn \in {Int64Call(b) : b \in JSONTexts}

INext == UnmarshalInt64Call

SpecInt64 == IInit /\ [][INext]_vars

-----------------------------------------------------------------------------
(* Part VI: auth login *)

\* a config file that does not exist
NoConfigFile == [exists |-> FALSE]

\* the config file with the fields of Config that login reads or writes
ConfigFile(c) == [exists |-> TRUE, cfg |-> c]

Config(base, key, secret, token, tokenSecret, userID, username) ==
    [APIBase |-> base, ConsumerKey |-> key, ConsumerSecret |-> secret,
     OAuthToken |-> token, OAuthTokenSecret |-> tokenSecret,
     UserID |-> userID, Username |-> username]

\* DefaultConfig
DefaultConfig == Config("api", "", "", "", "", 0, "")

\* config.Load: the defaults for a file that does not exist
Load(file) == IF file.exists THEN file.cfg ELSE DefaultConfig

\* ip auth login: the config file before the command, the flags, what was
\* typed, and the place the command has reached
LoginJob(file, key, secret, saveConsumer, username, password, noInput) ==
    [name |-> "login", pc |-> "start", file0 |-> file, file |-> file,
     cfg |-> Load(file), consumerKey |-> key, consumerSecret |-> secret,
     saveConsumer |-> saveConsumer, username |-> username, password |-> password,
     noInput |-> noInput, xauth |-> "", verify |-> "", saved |-> "", exit |-> 0]

\* the checks before the first request: the consumer key and secret from
\* the flags or else the config, the user name, the password
loginStart(j) ==
    LET key == IF j.consumerKey = "" THEN j.cfg.ConsumerKey ELSE j.consumerKey
        secret == IF j.consumerSecret = "" THEN j.cfg.ConsumerSecret ELSE j.consumerSecret
    IN  IF key = "" \/ secret = ""
        THEN [j EXCEPT !.pc = "exit", !.exit = 1]
        ELSE IF j.username = "" /\ j.noInput
        THEN [j EXCEPT !.pc = "exit", !.exit = UsageExit]
        ELSE [j EXCEPT !.pc = "xauth", !.consumerKey = key, !.consumerSecret = secret]

\* mutant of afterXAuth: the token is saved as soon as it was obtained
afterXAuth_saved(j, token, err) ==
    IF err # NilErr
    THEN [j EXCEPT !.pc = "exit", !.xauth = "failed", !.exit = printError(err)]
    ELSE [j EXCEPT !.pc = "verify", !.xauth = "ok",
                   !.cfg = [@ EXCEPT !.OAuthToken = token.Key,
                                     !.OAuthTokenSecret = token.Secret],
                   !.file = ConfigFile([j.cfg EXCEPT !.OAuthToken = token.Key,
                                                     !.OAuthTokenSecret = token.Secret])]

\* client.XAuthAccessToken has returned: on an error the command ends, else
\* the token, the API base and with --save-consumer the consumer key and
\* secret are put into cfg in memory
afterXAuth(j, token, err) ==
    IF err # NilErr
    THEN [j EXCEPT !.pc = "exit", !.xauth = "failed", !.exit = printError(err)]
    ELSE [j EXCEPT !.pc = "verify", !.xauth = "ok",
                   !.cfg = [@ EXCEPT !.OAuthToken = token.Key,
                                     !.OAuthTokenSecret = token.Secret,
                                     !.APIBase = "api",
                                     !.ConsumerKey = IF j.saveConsumer
                                                     THEN j.consumerKey ELSE @,
                                     !.ConsumerSecret = IF j.saveConsumer
                                                        THEN j.consumerSecret ELSE @]]

\* client2.VerifyCredentials has returned: on an error the command ends,
\* else the user is put into cfg in memory
afterVerify(j, userID, username, err) ==
    IF err # NilErr
    THEN [j EXCEPT !.pc = "exit", !.verify = "failed", !.exit = printError(err)]
    ELSE [j EXCEPT !.pc = "save", !.verify = "ok",
                   !.cfg = [@ EXCEPT !.UserID = userID, !.Username = username]]

\* cfg.Save(cfgPath): the file holds cfg, or Save fails and the file is as
\* before or, after the failed fallback of Save, gone
afterSave(j, outcome) ==
    CASE outcome = "ok" ->
           [j EXCEPT !.pc = "exit", !.saved = "ok", !.file = ConfigFile(j.cfg), !.exit = 0]
      [] outcome = "failed" ->
           [j EXCEPT !.pc = "exit", !.saved = "failed", !.exit = 1]
      [] outcome = "lost" ->
           [j EXCEPT !.pc = "exit", !.saved = "failed", !.file = NoConfigFile, !.exit = 1]

\* the config files login may find
ConfigFiles ==
    {NoConfigFile,
     ConfigFile(Config("api", "", "", "oldtoken", "oldsecret", 7, "old")),
     ConfigFile(Config("api", "ck", "cs", "", "", 0, ""))}

\* what the server may answer to the token exchange and to the verification
LoginErrors == {NilErr, APIError(1040), HTTPError(401), Err("net")}

LoginStart ==
    /\ job = NoJob
    /\ \E file \in ConfigFiles, key \in {"", "fk"}, saveConsumer \in BOOLEAN,
          username \in {"", "me"}, noInput \in BOOLEAN :
          job' = loginStart(LoginJob(file, key, IF key = "" THEN "" ELSE "fs",
                                     saveConsumer, username, "pw", noInput))
    /\ UNCHANGED <<tvars, wk, cmd, batch, fn>>

LoginXAuthReturn ==
    /\ job # NoJob
    /\ job.name = "login"
    /\ job.pc = "xauth"
    /\ \E err \in LoginErrors : job' = afterXAuth(job, Token("newtoken", "newsecret"), err)
    /\ UNCHANGED <<tvars, wk, cmd, batch, fn>>

LoginVerifyReturn ==
    /\ job # NoJob
    /\ job.name = "login"
    /\ job.pc = "verify"
    /\ \E err \in LoginErrors : job' = afterVerify(job, 9, "me", err)
    /\ UNCHANGED <<tvars, wk, cmd, batch, fn>>

LoginSave ==
    /\ job # NoJob
    /\ job.name = "login"
    /\ job.pc = "save"
    /\ \E outcome \in {"ok", "failed", "lost"} : job' = afterSave(job, outcome)
    /\ UNCHANGED <<tvars, wk, cmd, batch, fn>>

LInit == JIdle /\ job = NoJob

LNext == LoginStart \/ LoginXAuthReturn \/ LoginVerifyReturn \/ LoginSave

SpecLogin == LInit /\ [][LNext]_vars

-----------------------------------------------------------------------------
(* Part VI: an open-ended walk against a server that holds a finite set of *)
(* bookmarks                                                               *)

\* the server holds at most this many bookmarks
MaxBookmarks == 4

\* the server delivers at most this many bookmarks per page: the page size
\* of the API (500, the limit the walk asks for) scaled down
PageCap == 2

\* the bookmarks 1 .. n of the server: with and without a hash, with and
\* without a progress timestamp
ServerBookmarks(n) ==
    [k \in 1 .. n |->
        Bookmark(k, IF k = 3 THEN "" ELSE "h" \o FormatInt(k),
                 IF k = 2 THEN 50 ELSE 0, IF k = 2 THEN 1700000000 ELSE 0)]

ServerJob(n) == [name |-> "server", bookmarks |-> ServerBookmarks(n)]

\* the ids a have parameter names: the first field of every entry
haveIDs(have) ==
    IF have = "" THEN {}
    ELSE LET parts == Split(have, ",")
         IN  {Split(TrimSpace(parts[n]), ":")[1] : n \in 1 .. Len(parts)}

\* the answer to a list request: the first bookmarks of the server that the
\* have parameter does not name, at most limit and at most PageCap of them
serverPage(bookmarks, have, limit) ==
    LET keep(b) == FormatInt(b.BookmarkID) \notin haveIDs(have)
        rest == SelectSeq(bookmarks, keep)
        most == IF limit < PageCap THEN limit ELSE PageCap
    IN  Page(SubSeq(rest, 1, IF Len(rest) < most THEN Len(rest) ELSE most), <<>>)

\* client.ListBookmarks returns the answer of the server to the have
\* parameter sent, and the loop body runs
ServerPageReturn ==
    /\ At("request")
    /\ job # NoJob
    /\ job.name = "server"
    /\ LET f(w) == pageReturn(w, serverPage(job.bookmarks, w.have, w.limit), TRUE)
       IN  wk' = After("request", f)
    /\ UNCHANGED <<tvars, xvars>>

\* the open-ended walks: no --limit, with and without --have and --cursor
OpenParamSets ==
    { Params(0, have, path, maxPages, FALSE, FALSE) :
        have \in {"", "1:h1"}, path \in {"", CursorFile}, maxPages \in 0 .. MaxPagesFlag }

\* the cursor files an open-ended walk may find
OpenFiles ==
    { Absent, marshalCursor(NewCursor("2" :> cursorEntry("h2", 50, 1700000000))) }

OInit ==
    /\ TIdle
    /\ cmd = NoCmd /\ batch = NoBatch /\ fn = NoCall
    /\ job \in {ServerJob(n) : n \in 0 .. MaxBookmarks}
    /\ \E params \in OpenParamSets, file \in OpenFiles :
          wk = <<Run(params, file)>>

ONext ==
    Begin \/ ServerPageReturn \/ SaveWrite \/ SaveRename \/ SaveRemove \/ SaveRename2

SpecServer == OInit /\ [][ONext]_vars

-----------------------------------------------------------------------------
(* Part I: claims about the transport *)

\* the retryable responses as the specification names them: HTTP 429,
\* HTTP >= 500, or an error payload carrying the rate-limit code 1040
RetryableResponse(o) ==
    /\ o.err.kind = "nil"
    /\ \/ o.status = 429
       \/ o.status >= 500
       \/ (o.body.shape = "array" /\ o.body.type = "error" /\ o.body.code = 1040)

\* a success: a 2xx response without an error payload
SuccessResponse(o) ==
    /\ o.err.kind = "nil"
    /\ o.status \in 200 .. 299
    /\ ~(o.body.shape = "array" /\ o.body.type = "error")

\* the base backoff B the Transport was configured with
BaseBackoff == IF RetryBackoff > 0 THEN RetryBackoff ELSE 500

\* C1: with N = RetryCount + 1 allowed attempts, if the first k < N attempts
\* each yield a retryable response and attempt k+1 yields a success, then
\* postForm has returned that success after exactly k+1 attempts and exactly
\* k sleeps, the sleep after attempt n (counted from 0) lasting B * 2^n, so
\* each sleep is at least twice the one before it.
C1_RetryThenSuccess ==
    \A k \in 0 .. Len(outcomes) - 1 :
        ( /\ k < RetryCount + 1
          /\ \A j \in 1 .. k : RetryableResponse(outcomes[j])
          /\ SuccessResponse(outcomes[k + 1]) )
        => /\ pc = "done"
           /\ ret = outcomes[k + 1]
           /\ callError(ret) = NilErr
           /\ Len(outcomes) = k + 1
           /\ Len(sleeps) = k
           /\ \A n \in 0 .. k - 1 : sleeps[n + 1] = BaseBackoff * (2 ^ n)
           /\ \A n \in 2 .. k : sleeps[n] >= 2 * sleeps[n - 1]

\* C1 witness: responses 429, 429, 200 with three attempts allowed
C1_Witness ==
    /\ pc = "done"
    /\ RetryCount = 2
    /\ Len(outcomes) = 3
    /\ outcomes[1].status = 429
    /\ outcomes[2].status = 429
    /\ outcomes[3].status = 200
    /\ callError(ret) = NilErr
    /\ Len(sleeps) = 2
    /\ sleeps[2] = 2 * sleeps[1]

\* C2: no sleep ever follows the final attempt, and when every attempt has
\* yielded a retryable response the finished call has made exactly
\* maxAttempts = RetryCount + 1 attempts, slept exactly maxAttempts - 1
\* times and handed back the last attempt's response, which its caller
\* reports as an error.
C2_ExhaustedAttempts ==
    /\ Len(sleeps) <= RetryCount
    /\ Len(outcomes) <= RetryCount + 1
    /\ (pc = "sleeping" => Len(outcomes) < RetryCount + 1)
    /\ ( (pc = "done" /\ \A j \in 1 .. Len(outcomes) : RetryableResponse(outcomes[j]))
         => /\ Len(outcomes) = RetryCount + 1
            /\ Len(sleeps) = RetryCount
            /\ ret = outcomes[Len(outcomes)]
            /\ callError(ret) # NilErr )

\* C2 witness: one attempt allowed, a 500 response, the error after one
\* request and zero sleeps
C2_Witness ==
    /\ pc = "done"
    /\ RetryCount = 0
    /\ Len(outcomes) = 1
    /\ outcomes[1].status = 500
    /\ sleeps = <<>>
    /\ callError(ret) = HTTPError(500)

\* C3: an attempt is retried only when it yields a retryable response; any
\* other outcome (a non-retryable response, a Signer error, a transport
\* failure) ends the call at once, with no sleep and no attempt after it.
C3_OnlyRetryableResponsesRetried ==
    \A j \in 1 .. Len(outcomes) :
        ~RetryableResponse(outcomes[j])
        => /\ pc = "done"
           /\ j = Len(outcomes)
           /\ Len(sleeps) < j
           /\ ret.err = outcomes[j].err

\* C4: once the context is cancelled during a call, no further attempt is
\* started, no sleep is begun, a running sleep is not slept out, and the
\* call returns the cancellation error.
C4_CancelAbortsImmediately ==
    ctxDone
    => /\ Len(outcomes) + (IF pc = "inflight" THEN 1 ELSE 0) <= atCancel.attempts
       /\ Len(sleeps) = atCancel.sleeps
       /\ i = atCancel.i
       /\ (pc = "done" => ret.err = Err("ctx"))

\* the application error code a response carries, 0 if none
PayloadCode(o) == IF o.err = NilErr THEN parseAPIError(o.body).code ELSE 0

\* the malformed-request codes (12xx, 16xx)
MalformedCodes == {1220, 1221, 1240, 1241, 1242, 1243, 1244, 1245,
                   1250, 1251, 1252, 1600, 1601}

\* C14: a response carrying the rate-limit code 1040 or a server-error code
\* (1500, 1550) is retried while attempts remain, and a response whose only
\* failure indication is a malformed-request code (12xx, 16xx) is returned
\* at once and never retried.
C14_PayloadSplit ==
    \A j \in 1 .. Len(outcomes) :
        /\ ( /\ PayloadCode(outcomes[j]) \in {RateLimitCode, 1500, 1550}
             /\ j < attempts )
           => ~(pc = "done" /\ Len(outcomes) = j)
        /\ ( /\ PayloadCode(outcomes[j]) \in MalformedCodes
             /\ outcomes[j].status # 429
             /\ outcomes[j].status < 500 )
           => (pc = "done" /\ Len(outcomes) = j /\ ret = outcomes[j])

-----------------------------------------------------------------------------
(* Part II: claims about the paginator and the sync cursor *)

\* the run of SpecWalk
W == wk[1]

\* an open-ended walk with a page cap M = params.MaxPages > 0
OpenEnded(w) == w.params.Limit = 0 /\ w.params.MaxPages > 0

\* the first m pages have arrived and each holds bookmarks
FirstPagesNonEmpty(w, m) ==
    /\ Len(w.got) >= m
    /\ \A n \in 1 .. m : w.got[n].Bookmarks # <<>>

\* C5 (as claimed): an open-ended walk with cap M never issues more than M
\* list requests; if each of the first M pages is non-empty it returns the
\* max-pages-exceeded error after exactly M requests; and it succeeds only
\* if an empty page arrives within the first M requests.
C5_MaxPagesAsClaimed ==
    OpenEnded(W)
    => /\ Len(W.sent) <= W.params.MaxPages
       /\ FirstPagesNonEmpty(W, W.params.MaxPages)
          => /\ W.pc = "done"
             /\ W.err = Err("maxpages")
             /\ Len(W.sent) = W.params.MaxPages
       /\ (W.pc = "done" /\ W.err = NilErr)
          => \E n \in 1 .. Len(W.got) :
                n <= W.params.MaxPages /\ W.got[n].Bookmarks = <<>>

\* C5 (amended): as claimed, but the max-pages-exceeded error is returned
\* only if the page handler, when there is one, accepted each of the first
\* M pages; when it rejects the M-th page its error is returned instead,
\* still after exactly M requests.
C5_MaxPages ==
    OpenEnded(W)
    => /\ Len(W.sent) <= W.params.MaxPages
       /\ FirstPagesNonEmpty(W, W.params.MaxPages)
          => /\ W.pc = "done"
             /\ W.err \in {Err("maxpages"), Err("handler")}
             /\ (W.err = Err("handler") => W.params.PageHandler)
             /\ Len(W.sent) = W.params.MaxPages
       /\ (W.pc = "done" /\ W.err = NilErr)
          => \E n \in 1 .. Len(W.got) :
                n <= W.params.MaxPages /\ W.got[n].Bookmarks = <<>>

\* C5 witness: limit 0, max pages 2, two non-empty pages, the cap error
\* after exactly two requests
C5_Witness ==
    /\ W.params.Limit = 0
    /\ W.params.MaxPages = 2
    /\ FirstPagesNonEmpty(W, 2)
    /\ Len(W.sent) = 2
    /\ W.pc = "done"
    /\ W.err = Err("maxpages")

\* C6: the cursor file is written at most once in a run, and only in
\* saveCursor after every request of the walk succeeded and its page was
\* folded into the cursor; a run that ends with a failed page request, a
\* failed page handler or the max-pages error has left the cursor file with
\* the contents it had before the run.
C6_CursorFileFrame ==
    /\ W.writes <= 1
    /\ (W.writes > 0 \/ W.file # W.file0)
       => /\ W.pc \in {"save_rename2", "done"}
          /\ W.err \notin {Err("net"), Err("handler"), Err("maxpages")}
          /\ Len(W.got) = Len(W.sent)
          /\ W.have = haveStringFromCursor(W.cursor)
          /\ (W.writes = 1 => W.file = marshalCursor(W.cursor))
    /\ (W.pc = "done" /\ W.err \in {Err("net"), Err("handler"), Err("maxpages")})
       => W.file = W.file0 /\ W.writes = 0

\* C6 witness: a walk of several pages that saved its cursor
C6_Witness ==
    /\ W.pc = "done"
    /\ W.err = NilErr
    /\ W.writes = 1
    /\ Len(W.got) >= 2
    /\ W.file # W.file0

RECURSIVE FoldAll(_, _)
\* the cursor after folding a sequence of pages into it
FoldAll(cur, pages) ==
    IF pages = <<>> THEN cur
    ELSE FoldAll(updateCursor(cur, Head(pages).Bookmarks, Head(pages).DeleteIDs),
                 Tail(pages))

\* the ids of the entries of a have string
HaveIds(have) ==
    IF have = "" THEN {}
    ELSE LET parts == Split(have, ",")
         IN  {Split(parts[n], ":")[1] : n \in 1 .. Len(parts)}

\* the ids a page among pages m .. n of the walk returned, and deleted
ReturnedIn(w, m, n) ==
    UNION {{FormatInt(w.got[q].Bookmarks[k].BookmarkID) :
                k \in 1 .. Len(w.got[q].Bookmarks)} : q \in m .. n}

DeletedIn(w, m, n) ==
    UNION {{FormatInt(w.got[q].DeleteIDs[k]) :
                k \in 1 .. Len(w.got[q].DeleteIDs)} : q \in m .. n}

\* the ids of a sequence of bookmarks, and of a delete list
ReturnedIds(r) == {FormatInt(r.Bookmarks[n].BookmarkID) : n \in 1 .. Len(r.Bookmarks)}

DeletedIds(r) == {FormatInt(r.DeleteIDs[n]) : n \in 1 .. Len(r.DeleteIDs)}

\* request n of the walk carries the serialization of the cursor after
\* the fold of pages 1 .. n-1, and every id an earlier page returned and no
\* page deleted since (the returning page's own delete list included)
HaveFollowsCursor(w, n) ==
    /\ w.sent[n] = haveStringFromCursor(FoldAll(w.cursor0, SubSeq(w.got, 1, n - 1)))
    /\ UNION {ReturnedIds(w.got[m]) \ DeletedIn(w, m, n - 1) : m \in 1 .. n - 1}
          \subseteq HaveIds(w.sent[n])

\* a request after the first is in flight: it is the last entry of sent, and
\* the pages before it are all of got
InFlight(w) == w.pc = "request" /\ Len(w.sent) >= 2

\* C7 (as claimed): in a walk with an active cursor every request after the
\* first carries the serialization of the cursor after folding all previous
\* pages: every id an earlier page returned and none deleted since, and no
\* id that an earlier page's delete list removed.
C7_HaveAsClaimed ==
    InFlight(W)
    => /\ HaveFollowsCursor(W, Len(W.sent))
       /\ HaveIds(W.sent[Len(W.sent)]) \cap DeletedIn(W, 1, Len(W.sent) - 1) = {}

\* C7 (amended): as claimed, but an id that an earlier page's delete list
\* removed is absent only if no later page returned it again.
C7_HaveFollowsCursor ==
    InFlight(W)
    => /\ HaveFollowsCursor(W, Len(W.sent))
       /\ HaveIds(W.sent[Len(W.sent)])
             \cap UNION {DeletedIds(W.got[m]) \ ReturnedIn(W, m + 1, Len(W.sent) - 1) :
                            m \in 1 .. Len(W.sent) - 1}
          = {}

\* C7 witness: a third request whose have string lacks an id that the
\* first page removed and holds an id that a page returned
C7_Witness ==
    /\ InFlight(W)
    /\ Len(W.sent) = 3
    /\ "5" \in DeletedIds(W.got[1])
    /\ "5" \notin HaveIds(W.sent[3])
    /\ "6" \in HaveIds(W.sent[3])

\* the fingerprint the cursor keeps of a bookmark
Fingerprint(b) == [Hash |-> b.Hash, Progress |-> b.Progress,
                   ProgressTimestamp |-> b.ProgressTimestamp]

\* new is old with page r folded in: ids of the delete list are absent,
\* every other returned id maps to the fingerprint of its (last) bookmark,
\* and every other entry is as it was
Folded(old, r, new) ==
    /\ DOMAIN new = (DOMAIN old \cup ReturnedIds(r)) \ DeletedIds(r)
    /\ \A id \in DOMAIN new :
          IF id \in ReturnedIds(r)
          THEN LET at == CHOOSE n \in 1 .. Len(r.Bookmarks) :
                            /\ FormatInt(r.Bookmarks[n].BookmarkID) = id
                            /\ \A q \in n + 1 .. Len(r.Bookmarks) :
                                  FormatInt(r.Bookmarks[q].BookmarkID) # id
               IN  new[id] = Fingerprint(r.Bookmarks[at])
          ELSE new[id] = old[id]

\* the documented example: "5:abc,6:def:0.5:1700000000" merged into an empty
\* cursor gives two entries; after a page with id 6's new hash and the
\* delete list {5} the have string holds id 6 alone, with the new hash
FoldExample ==
    ( /\ W.params.Have = "5:abc,6:def:0.5:1700000000"
      /\ W.params.CursorPath = ""
      /\ Len(W.sent) >= 1 )
    => /\ Cardinality(DOMAIN W.cursor0.Have) = 2
       /\ W.sent[1] = "5:abc,6:def:0.5:1700000000"
       /\ ( /\ Len(W.sent) >= 2
            /\ W.got[1] = Page(<<Bookmark(6, "xyz", 50, 1700000000)>>, <<5>>) )
          => W.sent[2] = "6:xyz:0.5:1700000000"

\* C8: every fold of a page into the cursor leaves the ids of the page's
\* delete list absent (also when the page returned them), maps every other
\* returned id to the fingerprint of its bookmark, and leaves every other
\* entry unchanged; and the documented example comes out as stated.
C8_FoldPage ==
    /\ []FoldExample
    /\ [][ ( /\ wk[1].pc = "request"
             /\ Len(wk'[1].got) = Len(wk[1].got) + 1
             /\ wk'[1].err # Err("handler")
             /\ ~wk[1].cursor.isNil )
           => Folded(wk[1].cursor.Have, wk'[1].got[Len(wk'[1].got)],
                     wk'[1].cursor.Have) ]_vars

\* C8 witness: the documented example has run
C8_Witness ==
    /\ Len(W.sent) >= 2
    /\ W.sent[1] = "5:abc,6:def:0.5:1700000000"
    /\ W.got[1] = Page(<<Bookmark(6, "xyz", 50, 1700000000)>>, <<5>>)
    /\ W.sent[2] = "6:xyz:0.5:1700000000"

RECURSIVE AllBookmarks(_)
\* the bookmarks of a sequence of pages, in order
AllBookmarks(pages) ==
    IF pages = <<>> THEN <<>>
    ELSE Head(pages).Bookmarks \o AllBookmarks(Tail(pages))

\* C9: of two runs given the same parameters, cursor file, server pages and
\* page-handler answers, one with DiscardOutput and one without, both send
\* the same have strings, hold the same cursor, end alike and leave the same
\* cursor file; the discarding run accumulates no bookmarks, the other one
\* all of them.
C9_DiscardKeepsCursor ==
    /\ wk[1].sent = wk[2].sent
    /\ wk[1].cursor = wk[2].cursor
    /\ wk[1].pc = wk[2].pc
    /\ wk[1].err = wk[2].err
    /\ wk[1].file = wk[2].file
    /\ wk[2].Bookmarks = <<>>
    /\ wk[1].Bookmarks = AllBookmarks(wk[1].got)

\* C9 witness: both runs have walked several pages and saved their cursor
C9_Witness ==
    /\ Len(wk) = 2
    /\ wk[2].params.DiscardOutput /\ ~wk[1].params.DiscardOutput
    /\ wk[1].pc = "done" /\ wk[2].pc = "done"
    /\ wk[2].err = NilErr
    /\ Len(wk[2].sent) >= 3
    /\ wk[2].writes = 1
    /\ DOMAIN wk[2].cursor.Have # {}
    /\ wk[1].Bookmarks # <<>>

\* the entries of a have string: its comma-separated parts, trimmed, each
\* split into its colon-separated fields; blank parts are no entries
HaveEntries(have) ==
    {Split(TrimSpace(Split(have, ",")[n]), ":") : n \in 1 .. Len(Split(have, ","))}
    \ {<<"">>}

\* C10: when --have is given and there is no cursor file, every entry of
\* the supplied string is in the have parameter of the first request with
\* the same id and the same field values.
C10_HavePreserved ==
    ( /\ W.params.Have # ""
      /\ W.params.CursorPath = ""
      /\ Len(W.sent) >= 1 )
    => \A e \in HaveEntries(W.params.Have) : e \in HaveEntries(W.sent[1])

\* the ids of the entries of a have string, in order
HaveIdSeq(have) ==
    LET parts == Split(have, ",")
    IN  [n \in 1 .. Len(parts) |-> Split(parts[n], ":")[1]]

\* C11: in every state of a run, once the cursor is loaded, no cursor entry
\* has an empty id, and the have string of the run has no empty entry and
\* no id twice.
C11_CursorIdsValid ==
    W.pc # "start"
    => /\ "" \notin DOMAIN W.cursor.Have
       /\ W.have # ""
          => /\ \A n \in 1 .. Len(HaveIdSeq(W.have)) : HaveIdSeq(W.have)[n] # ""
             /\ \A n, q \in 1 .. Len(HaveIdSeq(W.have)) :
                   n # q => HaveIdSeq(W.have)[n] # HaveIdSeq(W.have)[q]


-----------------------------------------------------------------------------
(* Part III: claims about the list and export commands *)

\* the command has left its flag checks
PastFlags == cmd.pc \in {"folders", "walk", "exit"}

\* no request has gone to the server and no run of listBookmarks exists
NothingSent == cmd.folderRequests = 0 /\ wk = <<>>

\* C12 (as claimed): a list or export with maxPages <= 0, 0 included, is
\* rejected with a validation error before any list request is issued, and
\* is never replaced by a default cap.
C12_MaxPagesAsClaimed ==
    (PastFlags /\ cmd.maxPages <= 0)
    => /\ cmd.pc = "exit"
       /\ cmd.exit = UsageExit
       /\ NothingSent

\* C12 (amended): a list or export with maxPages < 0 is rejected with a
\* validation error before any request is issued; maxPages = 0 is accepted:
\* it is never the reason of a validation error, and the walk runs under
\* the default cap of 200 pages.
C12_MaxPagesValidated ==
    /\ (PastFlags /\ cmd.maxPages < 0)
       => /\ cmd.pc = "exit"
          /\ cmd.exit = UsageExit
          /\ cmd.usage \in {"limit", "max-pages"}
          /\ NothingSent
    /\ (PastFlags /\ cmd.maxPages = 0)
       => /\ cmd.usage # "max-pages"
          /\ wk # <<>> => wk[1].maxPages = DefaultMaxPages

\* C12 witness: --max-pages 0 and --limit 0, and the walk has sent more
\* requests than any --max-pages value tried
C12_Witness ==
    /\ cmd.maxPages = 0
    /\ cmd.limit = 0
    /\ wk # <<>>
    /\ wk[1].maxPages = DefaultMaxPages
    /\ Len(wk[1].sent) > MaxPagesFlag

\* the command's --since, --until, --updated-since or --select is invalid
InvalidBound == parseBounds(cmd).err # NilErr

InvalidSelect == parseSelectExpr(cmd.selectExpr).err # NilErr

\* C13: in list and export, an invalid --select expression or an invalid
\* --since / --until / --updated-since bound is reported as a validation
\* error before any request is sent to the server and before the cursor
\* file is written: no request is ever sent, no run of listBookmarks is
\* entered, and the command exits with the usage error.
C13_ValidationBeforeRequests ==
    (flagError(cmd) = "" /\ (InvalidBound \/ InvalidSelect))
    => /\ NothingSent
       /\ PastFlags => (cmd.pc = "exit" /\ cmd.exit = UsageExit)


-----------------------------------------------------------------------------
(* Part IV: claims about the batch loops *)

RECURSIVE WorstExit(_, _)
\* the largest exit code of the failed items of a batch, 0 if none failed
WorstExit(b, results) ==
    IF results = <<>> THEN 0
    ELSE LET rest == WorstExit(b, Tail(results))
             code == IF itemFailed(b, Head(results))
                     THEN exitCodeForError(Head(results)) ELSE 0
         IN  IF code > rest THEN code ELSE rest

\* the batch loop has run (the command did not stop at its flags)
LoopDone == batch.pc = "exit" /\ batch.started > 0

\* C15: every batch loop attempts every item even after earlier items
\* failed, and the command's exit code is the worst case over all items:
\* the maximum of the failed items' exit codes, 0 if none failed.
C15_WorstCaseExit ==
    LoopDone
    => /\ Len(batch.results) = batch.n
       /\ batch.exit = WorstExit(batch, batch.results)

\* C16: the items of a bulk mutation are processed one after another, and
\* with --batch N > 0 and a positive pause a pause of that length has begun
\* after every N-th processed item that has items following it, whether the
\* item succeeded or failed.
C16_PauseEveryN ==
    batch.name \in {"mutation", "delete", "add"}
    => /\ batch.started <= Len(batch.results) + 1
       /\ \A p \in 1 .. Len(batch.pauses) : batch.pauses[p].ms = batch.backoff
       /\ \A k \in 1 .. Len(batch.results) :
             ( /\ batch.batchN > 0
               /\ batch.backoff > 0
               /\ k % batch.batchN = 0
               /\ k < batch.n )
             => \E p \in 1 .. Len(batch.pauses) : batch.pauses[p].after = k


-----------------------------------------------------------------------------
(* Part V: claims about the exit codes *)

\* the exit code the bands name for an API error code
BandOf(code) ==
    IF code = 1040 THEN 10
    ELSE IF code = 1041 THEN 11
    ELSE IF code = 1042 THEN 12
    ELSE IF code \in MalformedCodes THEN 13
    ELSE IF code \in {1500, 1550} THEN 14
    ELSE 1

\* C17: exitCodeForError maps every error to exactly one exit-code band:
\* API error 1040 to 10, 1041 to 11, 1042 to 12, the malformed-request
\* codes (1220, 1221, 1240-1245, 1250-1252, 1600, 1601) to 13, 1500 and 1550
\* to 14, any other API error and any non-API error to 1; it is total and
\* never returns 0 for an error.
C17_ExitCodeBands ==
    (fn.name = "exitCodeForError" /\ fn.pc = "done")
    => /\ fn.err # NilErr
       /\ fn.ret \in {1, 10, 11, 12, 13, 14}
       /\ fn.ret # 0
       /\ fn.err.kind = "api" => fn.ret = BandOf(fn.err.code)
       /\ fn.err.kind # "api" => fn.ret = 1

\* C17 witness: the server-error code 1550 has been mapped to 14
C17_Witness ==
    /\ fn.name = "exitCodeForError"
    /\ fn.pc = "done"
    /\ fn.err = APIError(1550)
    /\ fn.ret = 14

-----------------------------------------------------------------------------
(* Part V: claims about the client-side filters *)

\* the value a bound is compared with: the id, the progress timestamp, the
\* synthetic updated value (the progress timestamp if present, the creation
\* time otherwise), or the creation time
BoundValue(b, field) ==
    IF field = "bookmark_id" THEN b.BookmarkID
    ELSE IF field = "progress_timestamp" THEN b.ProgressTimestamp
    ELSE IF field = "updated"
    THEN (IF b.ProgressTimestamp > 0 THEN b.ProgressTimestamp ELSE b.Time)
    ELSE b.Time

\* since <= v and v <= until, an absent bound imposing nothing
WithinInclusive(b, since, until) ==
    /\ since.isNil \/ since.Value <= BoundValue(b, since.Field)
    /\ until.isNil \/ BoundValue(b, until.Field) <= until.Value

\* the creation times of a list of bookmarks, in order
TimesOf(bookmarks) == [x \in 1 .. Len(bookmarks) |-> bookmarks[x].Time]

\* C18: filterBookmarksByBounds keeps exactly the bookmarks whose bound-field
\* value v satisfies since <= v and v <= until (both ends inclusive, an
\* absent bound imposing no constraint), in their original order, the
\* updated field being the progress timestamp if it is > 0 and the creation
\* time otherwise; creation times 100, 200, 300 with since=150 keep 200 and
\* 300, and with until=250 added keep 200.
C18_BoundsInclusive ==
    (fn.name = "filterBookmarksByBounds" /\ fn.pc = "done")
    => LET Keep(b) == WithinInclusive(b, fn.since, fn.until)
       IN  /\ fn.ret = SelectSeq(fn.bookmarks, Keep)
           /\ ( /\ TimesOf(fn.bookmarks) = <<100, 200, 300>>
                /\ fn.since = boundSpec("time", 150) )
              => /\ fn.until.isNil => TimesOf(fn.ret) = <<200, 300>>
                 /\ fn.until = boundSpec("time", 250) => TimesOf(fn.ret) = <<200>>

\* C18 witness: creation times 100, 200, 300 filtered with since=150 and
\* until=250 left the bookmark created at 200
C18_Witness ==
    /\ fn.name = "filterBookmarksByBounds"
    /\ fn.pc = "done"
    /\ TimesOf(fn.bookmarks) = <<100, 200, 300>>
    /\ fn.since = boundSpec("time", 150)
    /\ fn.until = boundSpec("time", 250)
    /\ Len(fn.ret) = 1
    /\ fn.ret[1] = fn.bookmarks[2]

\* some tag's name contains "news", case-insensitively
HasNewsTag(b) == \E t \in 1 .. Len(b.Tags) : Contains(ToLower(b.Tags[t]), "news")

\* some tag's name equals "news", case-insensitively
HasTagNews(b) == \E t \in 1 .. Len(b.Tags) : ToLower(b.Tags[t]) = "news"

\* the bookmark matches the clauses the expression is made of
MatchesAll(b, expr) ==
    IF expr = "starred=1,tag~news" THEN b.Starred /\ HasNewsTag(b)
    ELSE IF expr = "tag=News" THEN HasTagNews(b)
    ELSE IF expr = "tag!=news" THEN ~HasTagNews(b)
    ELSE IF expr = "tags~NEWS, starred=0" THEN HasNewsTag(b) /\ ~b.Starred
    ELSE b.Starred

\* C19: select clauses are AND-combined: the result is exactly the
\* subsequence of the bookmarks that match every clause; starred=1,tag~news
\* keeps exactly the starred bookmarks with a tag whose name contains "news"
\* case-insensitively; the tag field matches = and ~ if any tag matches and
\* != if no tag matches.
C19_SelectAnd ==
    (fn.name = "filterBookmarksBySelect" /\ fn.pc = "done")
    => LET Keep(b) == MatchesAll(b, fn.expr)
       IN  /\ fn.ret.err = NilErr
           /\ fn.ret.bookmarks = SelectSeq(fn.bookmarks, Keep)

\* C19 witness: starred=1,tag~news applied to a starred bookmark tagged
\* misc, a starred bookmark tagged "Daily News" and an unstarred bookmark
\* tagged news kept the second only
C19_Witness ==
    /\ fn.name = "filterBookmarksBySelect"
    /\ fn.pc = "done"
    /\ fn.expr = "starred=1,tag~news"
    /\ Len(fn.bookmarks) = 3
    /\ fn.bookmarks[1].Starred /\ fn.bookmarks[1].Tags = <<"misc">>
    /\ fn.bookmarks[2].Starred /\ fn.bookmarks[2].Tags = <<"misc", "Daily News">>
    /\ ~fn.bookmarks[3].Starred /\ fn.bookmarks[3].Tags = <<"news">>
    /\ fn.ret.bookmarks = <<fn.bookmarks[2]>>

-----------------------------------------------------------------------------
(* Part V: claims about the response parser *)

\* both shapes of a response have been parsed
BothParsed ==
    /\ fn.name = "parseBookmarksListResponse"
    /\ Len(fn.bodies) = 2
    /\ Len(fn.rets) = 2

\* a body of neither shape has been parsed
OtherParsed ==
    /\ fn.name = "parseBookmarksListResponse"
    /\ Len(fn.bodies) = 1
    /\ Len(fn.rets) = 1

\* the types parseBookmarksListResponse and parseAPIError know
KnownTypes == {"user", "bookmark", "highlight", "delete", "error"}

\* the bookmark ids and the highlight ids of a response, in order
BookmarkIDs(resp) == [x \in 1 .. Len(resp.Bookmarks) |-> resp.Bookmarks[x].BookmarkID]

HighlightIDs(resp) == [x \in 1 .. Len(resp.Highlights) |-> resp.Highlights[x].HighlightID]

\* C20: parseBookmarksListResponse normalizes both response shapes to one
\* structure: a top-level object with user, bookmarks, highlights and
\* delete_ids and a flat array of type-tagged objects carrying the same
\* items yield the same user, the same bookmarks and highlights in the same
\* order and the same delete ids (those of several "delete" elements
\* concatenated); array elements of unknown type are ignored, and any other
\* body is an error.
C20_ShapesAgree ==
    /\ BothParsed
       => LET items == fn.bodies[2].json
              o == fn.rets[1]
              a == fn.rets[2]
              Known(e) == e.type \in KnownTypes
          IN  /\ o.err = NilErr
              /\ IF items # <<>> /\ items[1].type = "error"
                 THEN a.err = APIError(items[1].id)
                 ELSE /\ a.err = NilErr
                      /\ a.resp.User.UserID = o.resp.User.UserID
                      /\ BookmarkIDs(a.resp) = BookmarkIDs(o.resp)
                      /\ HighlightIDs(a.resp) = HighlightIDs(o.resp)
                      /\ a.resp.DeleteIDs = o.resp.DeleteIDs
                      /\ fn.bodies[1].json = ObjectOf(items, TRUE) => a.resp = o.resp
                      /\ Len(a.resp.Bookmarks) + Len(a.resp.Highlights)
                            = Len(OfType(items, "bookmark")) + Len(OfType(items, "highlight"))
                      /\ a.resp = arrayLoop(NoResponse, SelectSeq(items, Known))
    /\ OtherParsed => fn.rets[1].err # NilErr

\* C20 witness: the array of a "delete" element with ids 4 and 5, an
\* element of unknown type, a bookmark and a "delete" element with id 7,
\* and the object carrying the same items, were both parsed to bookmark 9
\* and the delete ids 4, 5, 7
C20_Witness ==
    /\ BothParsed
    /\ fn.bodies[2].json = <<Elem("delete", 0, <<4, 5>>), Elem("meta", 0, <<>>),
                             Elem("bookmark", 9, <<>>), Elem("delete", 0, <<7>>)>>
    /\ fn.rets[1].err = NilErr
    /\ fn.rets[2].err = NilErr
    /\ fn.rets[2].resp.DeleteIDs = <<4, 5, 7>>
    /\ Len(fn.rets[2].resp.Bookmarks) = 1
    /\ fn.bodies[1].json = ObjectOf(fn.bodies[2].json, TRUE)
    /\ fn.rets[1].resp = fn.rets[2].resp

-----------------------------------------------------------------------------
(* Part VI: claims about concurrent and failed saves *)

\* both invocations have left saveCursor
BothSaved ==
    /\ job.name = "save"
    /\ job.procs[1].pc = "done"
    /\ job.procs[2].pc = "done"

\* C21: when two invocations save to the same cursor (or config) path
\* concurrently, then for every interleaving of their file operations,
\* after both saves complete the destination file exists and holds exactly
\* the complete state written by one of the two invocations.
C21_LastWriteWins ==
    BothSaved
    => /\ job.dir.path # NoFile
       /\ job.files[job.dir.path] \in {job.procs[1].b, job.procs[2].b}

\* saveCursor has returned an error to the run
SaveFailed(w) == w.pc = "done" /\ w.err.kind \in {"mkdir", "write", "rename"}

\* saveCursor has returned success to the run
SaveSucceeded(w) == w.pc = "done" /\ w.err = NilErr /\ w.writes > 0

\* C27: a failed cursor save never destroys the previously saved cursor: if
\* saveCursor returns an error, also when the first rename fails and the
\* remove-then-rename fallback fails too, the destination cursor file holds
\* what it held before the call; if it returns success the destination
\* holds the new cursor.
C27_FailedSaveKeepsOld ==
    /\ SaveFailed(W) => W.file = W.file0
    /\ SaveSucceeded(W) => W.file = marshalCursor(W.cursor)

-----------------------------------------------------------------------------
(* Part VI: claims about delete *)

\* --confirm was given with a value equal to the single bookmark id
ConfirmedSingle ==
    /\ Len(job.ids) = 1
    /\ job.confirm # ""
    /\ job.confirm = FormatInt(job.ids[1])

\* the command has refused: it has ended with an error and without a request
DeleteWasRefused == job.refusal # "" /\ job.exit # 0 /\ job.sent = <<>>

\* C22 as stated: a delete request is sent only if --yes-really-delete was
\* given or --confirm was given with a value equal to the single bookmark
\* id; in every other case the delete command refuses and sends no delete
\* request.
C22_DeleteAsClaimed ==
    job.name = "delete"
    => /\ job.sent # <<>> => (job.yes \/ ConfirmedSingle)
       /\ (job.pc = "exit" /\ ~(job.yes \/ ConfirmedSingle)) => DeleteWasRefused

\* C22: a delete request is sent only if --yes-really-delete was given or
\* --confirm was given with a value equal to the single bookmark id; in
\* every other case no delete request is sent, and the command refuses
\* unless --dry-run was given and the ids and --batch are valid, when it
\* prints the preview.
C22_DeleteNeedsConfirmation ==
    job.name = "delete"
    => /\ job.sent # <<>> => (job.yes \/ ConfirmedSingle)
       /\ (job.pc = "exit" /\ ~(job.yes \/ ConfirmedSingle))
          => /\ job.sent = <<>>
             /\ DeleteWasRefused \/ (job.dryRun /\ job.confirm = "" /\ job.exit = 0)

\* C22 witness: delete of one id with a --confirm that does not match has
\* ended without a request, refused
C22_Witness ==
    /\ job.name = "delete"
    /\ job.pc = "exit"
    /\ job.ids = <<123>>
    /\ job.confirm = "5"
    /\ ~job.yes /\ ~job.dryRun
    /\ job.sent = <<>>
    /\ job.refusal = "match"
    /\ job.exit = 1

-----------------------------------------------------------------------------
(* Part VI: claims about --dry-run *)

\* C23: with the global --dry-run flag no command makes changes: the
\* mutating commands (add, import, progress, archive, unarchive, star,
\* unstar, move, delete, folders add/delete/order, highlights add/delete,
\* config set/unset, auth login/logout) send no mutating API request and do
\* not rewrite the config file; they only print a preview.
C23_DryRunNoChanges ==
    (job.name = "command" /\ job.dryRun)
    => /\ job.mutations = 0
       /\ job.saves = 0
       /\ (job.pc = "exit" /\ job.exit = 0) => job.preview

-----------------------------------------------------------------------------
(* Part VI: claims about the signer *)

\* sub occurs in s
Occurs(s, sub) ==
    \E k \in 1 .. Len(s) - Len(sub) + 1 : SubSeq(s, k, k + Len(sub) - 1) = sub

\* the parameter names of an Authorization header, read from its text
HeaderNames(header) ==
    LET parts == Split(SubSeq(header, 7, Len(header)), ",")
    IN  {LET part == TrimSpace(parts[x])
         IN  SubSeq(part, 1, IndexOf(part, "=") - 1) : x \in 1 .. Len(parts)}

\* the names the signer may put into the header
OAuthNames ==
    {"oauth_consumer_key", "oauth_nonce", "oauth_signature", "oauth_signature_method",
     "oauth_timestamp", "oauth_token", "oauth_version"}

\* the secrets of the call: the consumer secret and the token secret
SecretsOf(j) ==
    {j.signer.ConsumerSecret} \cup (IF j.token.isNil THEN {} ELSE {j.token.Secret})

\* the names and the values of the body form of the call
BodyStrings(j) == UNION {{j.form[x][1], j.form[x][2]} : x \in 1 .. Len(j.form)}

\* the attempts of the call for which a header was built
Signed(j) == {x \in 1 .. Len(j.made) : j.made[x].err = ""}

\* C24: the Authorization header contains only oauth_* parameters: the
\* token secret and the consumer secret never enter the parameter set or
\* the header (they only form the signing key), and the body form
\* parameters never appear in the header.
C24_HeaderOnlyOAuth ==
    (job # NoJob /\ job.name = "sign")
    => \A x \in Signed(job) :
          LET header == job.made[x].header
              params == job.made[x].params
          IN  /\ SubSeq(header, 1, 6) = "OAuth "
              /\ HeaderNames(header) = DOMAIN params
              /\ DOMAIN params \subseteq OAuthNames
              /\ \A k \in DOMAIN params : SubSeq(k, 1, 6) = "oauth_"
              /\ \A secret \in SecretsOf(job) :
                    /\ \A k \in DOMAIN params : params[k] # secret
                    /\ ~Occurs(header, secret)
                    /\ ~Occurs(header, oauthEscape(secret))
              /\ \A b \in BodyStrings(job) :
                    /\ b \notin DOMAIN params
                    /\ \A k \in DOMAIN params : params[k] # b
                    /\ ~Occurs(header, b)
                    /\ ~Occurs(header, oauthEscape(b))

\* C24 witness: a call with a token and the xAuth form (user name and
\* password) has been signed; the header names the token key
C24_Witness ==
    /\ job # NoJob
    /\ job.name = "sign"
    /\ job.token = Token("tk", "t/s")
    /\ Len(job.form) = 2
    /\ job.form[2] = <<"x_auth_password", "p w">>
    /\ Signed(job) # {}
    /\ \A x \in Signed(job) : Occurs(job.made[x].header, "oauth_token=\"tk\"")

\* C25: the Signer keeps no state between calls: every attempt of a retried
\* call is signed anew, with the nonce read and the clock read during that
\* attempt, and no nonce and no Authorization value is used by two attempts.
C25_FreshPerAttempt ==
    (job # NoJob /\ job.name = "sign")
    => /\ \A x \in Signed(job) :
             /\ Occurs(job.made[x].header,
                       "oauth_nonce=\"" \o job.made[x].nonce \o "\"")
             /\ Occurs(job.made[x].header,
                       "oauth_timestamp=\"" \o FormatInt(job.made[x].ts) \o "\"")
       /\ \A x, y \in Signed(job) :
             x < y => /\ job.made[x].nonce # job.made[y].nonce
                      /\ job.made[x].header # job.made[y].header
                      /\ job.made[x].ts <= job.made[y].ts
       /\ job.pc = "exit" => job.made[Len(job.made)].ts = job.clock

\* C25 witness: a call has been retried twice, the second attempt within
\* the second of the first and the third attempt a second later; all three
\* were signed
C25_Witness ==
    /\ job # NoJob
    /\ job.name = "sign"
    /\ job.pc = "exit"
    /\ Len(job.made) = 3
    /\ Signed(job) = {1, 2, 3}
    /\ job.made[1].ts = job.made[2].ts
    /\ job.made[3].ts = job.made[2].ts + 1
    /\ job.made[1].header # job.made[2].header

-----------------------------------------------------------------------------
(* Part VI: claims about Int64.UnmarshalJSON *)

\* the number a JSON text holds, bare or quoted
NumberOf(b) ==
    LET t == TrimSpace(b)
    IN  IF t # "" /\ Head(t) = "\"" THEN unquote(t).s ELSE t

\* the text holds a number with a fractional part
IsFractional(b) == validNumber(NumberOf(b)) /\ IndexOf(NumberOf(b), ".") # 0

\* the integer part of the number a text holds
Truncated(b) ==
    ParseInt(SubSeq(NumberOf(b), 1, IndexOf(NumberOf(b), ".") - 1)).val

\* C26: Int64 JSON decoding accepts a fractional value given as a JSON
\* number or as a quoted string (1768856911.4784305 and
\* "1768856911.4784305") and yields the value truncated to its integer
\* part (1768856911) without error.
C26_FractionTruncated ==
    (fn.name = "Int64.UnmarshalJSON" /\ fn.pc = "done" /\ IsFractional(fn.b))
    => (fn.err = "" /\ fn.value = Truncated(fn.b))

-----------------------------------------------------------------------------
(* Part I: claims about the exit code of a finished call *)

\* the final outcome is a response that is rate-limited: HTTP 429 or the
\* application code 1040
RateLimitedOutcome(r) ==
    /\ r.err = NilErr
    /\ r.status = 429 \/ parseAPIError(r.body) = APIError(RateLimitCode)

\* the final outcome is a response that is server-side: HTTP >= 500 or the
\* application code 1500 or 1550
ServerSideOutcome(r) ==
    /\ r.err = NilErr
    /\ r.status >= 500 \/ parseAPIError(r.body) \in {APIError(1500), APIError(1550)}

\* C29: the retry classification and the exit-code bands agree: when the
\* final outcome of a command is rate-limited (HTTP 429 or application code
\* 1040) the command exits with 10, and when it is server-side (HTTP >= 500
\* or application code 1500/1550) it exits with 14, never with the generic
\* code 1.
C29_BandsAgree ==
    pc = "done"
    => /\ RateLimitedOutcome(ret) => printError(callError(ret)) = 10
       /\ (ServerSideOutcome(ret) /\ ~RateLimitedOutcome(ret))
          => printError(callError(ret)) = 14

-----------------------------------------------------------------------------
(* Part VI: claims about auth login *)

\* the strings the config file holds
StringsOf(file) ==
    IF ~file.exists THEN {}
    ELSE {file.cfg.APIBase, file.cfg.ConsumerKey, file.cfg.ConsumerSecret,
          file.cfg.OAuthToken, file.cfg.OAuthTokenSecret, file.cfg.Username}

\* C30: auth login writes the config file only after both the xAuth token
\* exchange and the verify_credentials call have succeeded; if either step
\* fails the config file, with any token and user stored before, is left
\* unchanged; the password is never written to it.
C30_LoginSavesLast ==
    (job # NoJob /\ job.name = "login")
    => /\ job.file # job.file0 => (job.xauth = "ok" /\ job.verify = "ok" /\ job.pc = "exit")
       /\ (job.xauth = "failed" \/ job.verify = "failed")
          => (job.pc = "exit" /\ job.file = job.file0 /\ job.saved = "" /\ job.exit # 0)
       /\ job.password \notin StringsOf(job.file)
       /\ job.saved = "ok"
          => (job.file.exists /\ job.file.cfg.OAuthToken = "newtoken"
              /\ job.file.cfg.Username = "me")

\* C30 witness: with a token and a user stored, the token exchange has
\* succeeded and verify_credentials has failed; the command has ended with
\* an error and the file still holds the old token and user
C30_Witness ==
    /\ job # NoJob
    /\ job.name = "login"
    /\ job.pc = "exit"
    /\ job.xauth = "ok"
    /\ job.verify = "failed"
    /\ job.cfg.OAuthToken = "newtoken"
    /\ job.file.exists
    /\ job.file.cfg.OAuthToken = "oldtoken"
    /\ job.file.cfg.Username = "old"
    /\ job.exit # 0

-----------------------------------------------------------------------------
(* Part VI: claims about a walk against a finite server *)

\* the number of bookmarks of the server, and the size of its pages
ServerCount == Len(job.bookmarks)

PageSize == IF PageLimit < PageCap THEN PageLimit ELSE PageCap

\* ceil(n / p)
CeilDiv(n, p) == (n + p - 1) \div p

\* the walk is open-ended and its cap allows the pages of the server
OpenWalk ==
    /\ job # NoJob
    /\ job.name = "server"
    /\ W.params.Limit = 0
    /\ (IF W.params.MaxPages <= 0 THEN DefaultMaxPages ELSE W.params.MaxPages)
       > CeilDiv(ServerCount, PageSize)

\* the ids of the accumulated result, in order
ResultIDs == [n \in 1 .. Len(W.Bookmarks) |-> W.Bookmarks[n].BookmarkID]

\* the ids occur exactly once each and are exactly those of S
ExactlyOnce(ids, S) ==
    /\ {ids[n] : n \in 1 .. Len(ids)} = S
    /\ Len(ids) = Cardinality(S)

\* the ids of the server the first request of the walk did not exclude
NotExcludedAtStart ==
    {k \in 1 .. ServerCount : FormatInt(k) \notin haveIDs(W.sent[1])}

====
